---------------------------- MODULE Spec2Model ----------------------------
(***************************************************************************)
(* A state-machine model of lfs/static/js/lfs.manage.js, the view binder   *)
(* of the LFS management interface: delegated event handlers that submit   *)
(* forms or fetch fragments and patch the answer into the document.        *)
(*                                                                         *)
(* The model is organised by feature, one specification per feature:       *)
(*   SpecAjax    the request/response bindings (envelope, fragments,       *)
(*               notifications, loading indicator)                         *)
(*   SpecFilter  the free-text filter fields and the debounce timer        *)
(*   SpecConfirm the inline yes/no confirmation prompt                     *)
(*   SpecExport  the export category tree                                  *)
(*   SpecServer  the export category tree together with the server         *)
(*   SpecLayout  the two-column lists and the align functions              *)
(*   SpecProducts the products overview filter and its answers             *)
(*   SpecCookies the tab, edit-mode and message cookies                    *)
(*   SpecSelect  the row selection of the products table                   *)
(*   SpecDialog  the delete dialog                                         *)
(*   SpecCriteria the criterion rows and their positions                   *)
(* All specifications share the variables below; a specification leaves    *)
(* the variables of the other features at their initial value.             *)
(***************************************************************************)
EXTENDS Integers, Sequences, FiniteSets, TLC

VARIABLES
    page,       \* the bound elements the loaded document holds (a set of bindings)
    formMethod, \* the method attribute of the page's forms ("GET" or "POST")
    net,        \* the requests in flight
    sent,       \* history: every request issued, in issue order
    nextId,     \* the id the next request gets
    nclicks,    \* the number of user events handled so far
    dom,        \* the content of each container of the document
    loading,    \* whether the .ajax-loading indicator is visible
    growls,     \* the notifications shown ($.jGrowl), oldest first
    linkClass,  \* the class of the .category-ajax-link: "collapsed" or "expanded"
    arrived,    \* history: ids of the answered requests, in arrival order
    last        \* history: the last event handled

ajaxVars ==
    <<page, formMethod, net, sent, nextId, nclicks, dom, loading, growls, linkClass,
      arrived, last>>

VARIABLES
    clock,      \* the time since page load, in ticks of 100 ms
    timers,     \* the pending setTimeout timers
    timeout,    \* the global variable `timeout`: the id of the timer set last
    fieldVal,   \* the value of each filter field of the page
    keys        \* history: the keystrokes, each with its field, time and value

filterVars == <<clock, timers, timeout, fieldVal, keys>>

VARIABLES
    place,        \* where each element is: a slot of the page, inside a prompt, or nowhere
    attrs,        \* the href, data and class attributes of each element
    yes,          \* the href of the Yes link of each prompt
    confirmation, \* the global variable `confirmation`: the element clicked last
    location,     \* the URL the window shows
    nprompts,     \* the number of prompts built so far
    origin        \* history: the element each prompt was built for

confirmVars == <<place, attrs, yes, confirmation, location, nprompts, origin>>

VARIABLES
    parentOf,   \* the export tree: the node each node is listed under (0: the root list)
    nodeKind,   \* "category" or "product", for each node of the export tree
    checked,    \* the state of the checkbox of each node
    stateText   \* the content of the .category-state element of each category

exportVars == <<parentOf, nodeKind, checked, stateText>>

VARIABLES
    height      \* the height of each column of the two-column lists of the page

layoutVars == <<height>>

VARIABLES
    cookie,        \* the cookies of the browser, by name
    selectedTab,   \* the tab selected in each tabs widget of the page
    fieldsVisible, \* whether the .property-edit-field elements are visible
    written        \* history: the index a tabsshow handler wrote last to each cookie

cookieVars == <<cookie, selectedTab, fieldsVisible, written>>

VARIABLES
    exported,   \* the server: the products that are in the export
    answers     \* the server: the answer computed for each request it has handled

serverVars == <<exported, answers>>

VARIABLES
    marked,     \* the rows of the products table that carry the class marked
    selected,   \* the state of the input.select-1 checkbox of each row
    criteria,   \* the criterion rows of the document, each with its .position value
    dialogOpen, \* whether #delete-dialog is open
    deleteUrl,  \* the content of #delete-url, as a DOM text
    clicked     \* history: the href of each .delete-link clicked, in click order

widgetVars == <<marked, selected, criteria, dialogOpen, deleteUrl, clicked>>

vars ==
    <<ajaxVars, filterVars, confirmVars, exportVars, layoutVars, cookieVars, serverVars,
      widgetVars>>

(***************************************************************************)
(* Bounds of the model.                                                    *)
(***************************************************************************)
\* user events (clicks, changes) handled in one behaviour of SpecAjax
MaxClicks == 2
\* (selector, markup) pairs in the html list of one envelope
MaxPairs == 2
\* keystrokes in one behaviour of SpecFilter
MaxKeys == 3
\* the last tick of the clock
MaxTime == 8
\* .products-name-filter fields (each in a form of its own) on the products page
MaxFields == 2
\* .confirmation-link links on the page
MaxLinks == 2
\* confirmation prompts built in one behaviour of SpecConfirm
MaxPrompts == 3
\* nodes (categories and products) of the export tree
MaxNodes == 3
\* checkbox clicks in one behaviour of SpecExport
MaxToggles == 1
\* the tallest a rendered column can be
MaxHeight == 3
\* repeated calls of an align function after a success callback
MaxAligns == 2
\* events on the bound element in one behaviour of SpecLayout
MaxRenders == 1
\* the index of the last tab of a tabs widget
MaxTab == 2
MaxRows == 4
MaxCriteria == 2

\* markup a response can carry, and the markup the page was rendered with
Markup == {"m1", "m2"}
InitialMarkup == "m0"
\* the selectors an envelope may name: two containers of the page
EnvContainers == {"#a", "#b"}
EnvSelectors == EnvContainers
\* the message field of a JSON answer; Absent stands for a missing field
Absent == "<absent>"
Messages == {Absent, "saved"}


(***************************************************************************)
(* The bindings.  A binding is named by its selector; H describes what its *)
(* handler does:                                                           *)
(*   call    the request it issues when triggered: "none", "get" ($.get),   *)
(*           "post" ($.post), "form" (ajaxSubmit, with the form's own      *)
(*           method), "formpost" (ajaxSubmit with "type": "post") or        *)
(*           "timer" (ajaxSubmit from a setTimeout callback)               *)
(*   pre     TRUE when it calls show_ajax_loading() before the request     *)
(*   kind    how the success callback reads the answer: "envelope" (JSON,  *)
(*           the html list is applied pair by pair), "keys" (JSON, one     *)
(*           named field per target), "raw" (the body is put in every      *)
(*           target), "other" (the body is placed relative to the clicked  *)
(*           element, no container is replaced), "none" (no callback)      *)
(*   targets the containers the callback replaces, in the order written    *)
(*   growl   "guarded": if (data["message"]) $.jGrowl(data["message"]);    *)
(*           "always": $.jGrowl(data["message"]); "fixed": a literal text;  *)
(*           "none": no notification                                       *)
(*   hide    TRUE when the callback calls hide_ajax_loading()              *)
(***************************************************************************)
H(call, pre, kind, targets, growl, hide) ==
    [call |-> call, pre |-> pre, kind |-> kind, targets |-> targets,
     growl |-> growl, hide |-> hide]

\* a handler that issues no request
ClientOnly == H("none", FALSE, "none", <<>>, "none", FALSE)

PageLoadBindings ==
    (".popup-link" :> ClientOnly) @@
    ("#product-tabs" :> ClientOnly) @@
    ("#category-tabs" :> ClientOnly)

GenericBindings ==
    ("#product-name-filter" :> H("form", FALSE, "envelope", <<>>, "guarded", FALSE)) @@
    (".ajax-save-button" :> H("form", FALSE, "envelope", <<>>, "always", FALSE)) @@
    (".ajax-save-button-2" :> H("form", TRUE, "envelope", <<>>, "guarded", TRUE)) @@
    (".ajax-link" :> H("post", FALSE, "envelope", <<>>, "guarded", FALSE))

CriteriaBindings ==
    (".edit-price-criteria-button" :> H("get", FALSE, "raw", <<"#dialog">>, "none", FALSE)) @@
    (".criterion-add-first-button" :> H("post", FALSE, "other", <<>>, "none", FALSE)) @@
    (".criterion-add-button" :> H("post", FALSE, "other", <<>>, "none", FALSE)) @@
    ("select.criterion-type" :> H("post", FALSE, "other", <<>>, "none", FALSE)) @@
    (".criterion-save-button" :> H("form", FALSE, "keys", <<"#criteria">>, "always", FALSE)) @@
    (".price-criterion-save-button" :>
        H("form", FALSE, "keys", <<"#prices", "#price-criteria">>, "always", FALSE)) @@
    (".criterion-delete-button" :> ClientOnly)

GeneralBindings ==
    (".delete-all" :> ClientOnly) @@
    (".select-all" :> ClientOnly) @@
    (".select-all-1" :> ClientOnly) @@
    (".select-all-2" :> ClientOnly)

CategoryBindings ==
    (".category-products-page-link" :> H("get", FALSE, "raw", <<"#products-inline">>, "none", FALSE)) @@
    (".category-products-add-button" :>
        H("form", FALSE, "keys", <<"#products-inline">>, "always", FALSE)) @@
    (".category-products-remove-button" :>
        H("form", FALSE, "raw", <<"#products-inline">>, "fixed", FALSE)) @@
    (".category-products-filter-input" :>
        H("form", FALSE, "raw", <<"#products-inline">>, "none", FALSE)) @@
    (".category-products-amount" :> H("form", FALSE, "raw", <<"#products-inline">>, "none", FALSE)) @@
    (".category-products-categories-filter" :>
        H("form", FALSE, "raw", <<"#products-inline">>, "none", FALSE)) @@
    (".category-selected-products-filter-input" :>
        H("form", FALSE, "raw", <<"#selected-products">>, "none", FALSE)) @@
    (".category-products-categories-filter-2" :>
        H("form", FALSE, "raw", <<"#selected-products">>, "none", FALSE)) @@
    (".category-seo-button" :> H("form", FALSE, "keys", <<"#seo">>, "always", FALSE))

ProductsOverviewBindings ==
    (".products-name-filter" :> H("timer", FALSE, "raw", <<"#products-inline">>, "none", FALSE)) @@
    (".products-reset-link" :> H("get", FALSE, "raw", <<"#products-inline">>, "none", FALSE))

SelectableProductsBindings ==
    ("#selectable-products-filter-input" :>
        H("form", FALSE, "raw", <<"#selectable-products">>, "none", FALSE)) @@
    (".selectable-products-category-filter" :>
        H("form", FALSE, "raw", <<"#selectable-products">>, "none", FALSE)) @@
    (".selectable-products-page-link" :>
        H("get", FALSE, "raw", <<"#selectable-products">>, "none", FALSE)) @@
    (".selectable-products-reset-link" :>
        H("get", FALSE, "raw", <<"#selectable-products">>, "none", FALSE))

ProductImagesBindings ==
    (".upload-file:last" :> ClientOnly) @@
    ("#product-images-save-button" :> H("form", FALSE, "raw", <<"#images">>, "none", FALSE)) @@
    (".product-images-update-button" :> H("form", FALSE, "keys", <<"#images">>, "always", FALSE))

ProductDataBindings ==
    ("#product-data-save-button" :>
        H("form", FALSE, "keys", <<"#data", "#selectable-products">>, "always", FALSE))

ProductCategoriesBindings ==
    (".product-categories-save-button" :> H("form", FALSE, "keys", <<>>, "always", FALSE)) @@
    (".show-selected" :> ClientOnly) @@
    (".show-current" :> ClientOnly)

ProductVariantsBindings ==
    (".property-add-button" :> H("form", FALSE, "raw", <<"#variants">>, "none", FALSE)) @@
    (".variants-add-button" :>
        H("form", FALSE, "keys", <<"#variants", "#selectable-products">>, "none", FALSE)) @@
    (".variants-update-button" :>
        H("form", FALSE, "keys", <<"#variants", "#selectable-products">>, "none", FALSE)) @@
    (".option-add-button" :> H("form", FALSE, "raw", <<"#variants">>, "none", FALSE)) @@
    (".property-change-button" :> H("post", FALSE, "raw", <<"#variants">>, "none", FALSE))

AccessoriesBindings ==
    ("#add-accessories-button" :>
        H("form", TRUE, "keys", <<"#accessories-inline">>, "always", TRUE)) @@
    (".accessories-update-button" :>
        H("form", TRUE, "keys", <<"#accessories-inline">>, "always", TRUE)) @@
    (".accessories-page-link" :> H("get", FALSE, "raw", <<"#accessories-inline">>, "none", FALSE)) @@
    (".filter-accessories-input" :>
        H("formpost", FALSE, "raw", <<"#accessories-inline">>, "none", FALSE)) @@
    (".accessories-categories-filter" :>
        H("form", FALSE, "raw", <<"#accessories-inline">>, "none", FALSE)) @@
    ("#accessories-amount" :> H("form", FALSE, "raw", <<"#accessories-inline">>, "none", FALSE))

RelatedProductsBindings ==
    ("#add-related-products-button" :>
        H("form", FALSE, "keys", <<"#related-products-inline">>, "always", FALSE)) @@
    ("#remove-related-products-button" :>
        H("form", FALSE, "keys", <<"#related-products-inline">>, "always", FALSE)) @@
    (".related-products-update-button" :>
        H("form", FALSE, "keys", <<"#related-products-inline">>, "always", FALSE)) @@
    (".related-products-page-link" :>
        H("get", FALSE, "raw", <<"#related-products-inline">>, "none", FALSE)) @@
    (".filter-related-products-input" :>
        H("form", FALSE, "raw", <<"#related-products-inline">>, "none", FALSE)) @@
    (".related-products-categories-filter" :>
        H("form", FALSE, "raw", <<"#related-products-inline">>, "none", FALSE)) @@
    ("#related-products-amount" :>
        H("form", FALSE, "raw", <<"#related-products-inline">>, "none", FALSE))

SelectProductsBindings ==
    ("input.select-1" :> ClientOnly)

ProductSeoStockBindings ==
    (".seo-save-button" :> H("formpost", FALSE, "keys", <<"#seo-inline">>, "always", FALSE)) @@
    (".price-button" :> H("form", FALSE, "keys", <<"#prices">>, "always", FALSE)) @@
    (".product-stock-button" :> H("formpost", FALSE, "keys", <<"#stock">>, "always", FALSE))

PropertyGroupBindings ==
    ("#add-property-button" :> H("form", FALSE, "keys", <<"#properties">>, "always", FALSE)) @@
    (".property-group-update-button" :>
        H("form", FALSE, "keys", <<"#properties">>, "always", FALSE)) @@
    ("#add-products-button" :>
        H("form", FALSE, "keys", <<"#products-inline", "#product-values">>, "always", FALSE)) @@
    (".products-update-button" :> H("form", FALSE, "keys", <<"#products-inline">>, "always", FALSE)) @@
    (".products-page-link" :> H("get", FALSE, "raw", <<"#products-inline">>, "none", FALSE)) @@
    (".filter-products-input" :>
        H("formpost", FALSE, "raw", <<"#products-inline">>, "none", FALSE)) @@
    (".products-categories-filter" :>
        H("form", FALSE, "raw", <<"#products-inline">>, "none", FALSE)) @@
    ("#update-product-values-button" :>
        H("form", FALSE, "keys", <<"#product-values">>, "always", FALSE))

ShopPropertyBindings ==
    (".shop-property-add-option-button" :> H("form", FALSE, "keys", <<"#options">>, "always", FALSE)) @@
    (".shop-property-add-step-button" :> H("form", FALSE, "keys", <<"#steps">>, "always", FALSE)) @@
    (".shop-property-save-step-button" :> H("form", FALSE, "keys", <<"#steps">>, "always", FALSE)) @@
    (".shop-property-save-step-type-button" :>
        H("form", FALSE, "keys", <<"#steps">>, "always", FALSE))

StaticBlockBindings ==
    (".confirmation-link-no" :> ClientOnly) @@
    (".confirmation-link" :> ClientOnly)

PortletBindings ==
    (".portlet-edit-button" :> H("get", FALSE, "raw", <<"#dialog">>, "none", FALSE)) @@
    (".portlet-add-button" :> H("form", FALSE, "raw", <<"#dialog">>, "none", FALSE)) @@
    (".ajax-portlet-save-button" :> H("form", FALSE, "keys", <<"#portlets">>, "always", FALSE))

TopsellerBindings ==
    ("#add-topseller-button" :> H("form", FALSE, "keys", <<"#topseller-inline">>, "always", FALSE)) @@
    (".topseller-update-button" :>
        H("form", FALSE, "keys", <<"#topseller-inline">>, "always", FALSE)) @@
    (".topseller-page-link" :> H("get", FALSE, "raw", <<"#topseller-inline">>, "none", FALSE)) @@
    (".filter-topseller-input" :> H("form", FALSE, "raw", <<"#topseller-inline">>, "none", FALSE)) @@
    (".topseller-categories-filter" :>
        H("form", FALSE, "raw", <<"#topseller-inline">>, "none", FALSE)) @@
    ("#topseller-amount" :> H("form", FALSE, "raw", <<"#topseller-inline">>, "none", FALSE))

FeaturedBindings ==
    ("#add-featured-button" :> H("form", FALSE, "keys", <<"#featured-inline">>, "always", FALSE)) @@
    (".featured-update-button" :>
        H("form", FALSE, "keys", <<"#featured-inline">>, "always", FALSE)) @@
    (".featured-page-link" :> H("get", FALSE, "raw", <<"#featured-inline">>, "none", FALSE)) @@
    (".filter-featured-input" :> H("form", FALSE, "raw", <<"#featured-inline">>, "none", FALSE)) @@
    (".featured-categories-filter" :>
        H("form", FALSE, "raw", <<"#featured-inline">>, "none", FALSE)) @@
    ("#featured-amount" :> H("form", FALSE, "raw", <<"#featured-inline">>, "none", FALSE))

ShopBindings ==
    ("#shop-default-values-button" :>
        H("form", FALSE, "keys", <<"#default-values">>, "always", FALSE))

\* the expand branch of the .category-ajax-link handler; CategoryAjaxLinkClick
\* below decides between it and the collapse branch
ExportLinkBindings ==
    (".category-ajax-link" :> H("post", FALSE, "envelope", <<>>, "none", FALSE))

MiscBindings ==
    (".category-variants-options" :> H("post", FALSE, "none", <<>>, "none", FALSE)) @@
    ("#id_filterable" :> ClientOnly) @@
    ("#id_configurable" :> ClientOnly) @@
    (".delete-link" :> ClientOnly) @@
    ("#delete-dialog button" :> ClientOnly) @@
    (".property-edit-mode" :> ClientOnly)

Handler ==
    PageLoadBindings @@ GenericBindings @@ CriteriaBindings @@ GeneralBindings @@
    CategoryBindings @@ ProductsOverviewBindings @@ SelectableProductsBindings @@
    ProductImagesBindings @@ ProductDataBindings @@ ProductCategoriesBindings @@
    ProductVariantsBindings @@ AccessoriesBindings @@ RelatedProductsBindings @@
    SelectProductsBindings @@ ProductSeoStockBindings @@ PropertyGroupBindings @@
    ShopPropertyBindings @@ StaticBlockBindings @@ PortletBindings @@
    TopsellerBindings @@ FeaturedBindings @@ ShopBindings @@ ExportLinkBindings @@
    MiscBindings

Bindings == DOMAIN Handler


(***************************************************************************)
(* Requests and answers.                                                   *)
(***************************************************************************)
\* the HTTP method of the request a handler issues
Method(h) ==
    CASE h.call = "get" -> "GET"
      [] h.call = "post" -> "POST"
      [] h.call = "formpost" -> "POST"
      [] h.call \in {"form", "timer"} -> formMethod
      [] OTHER -> "NONE"

NewRequest(b) == [id |-> nextId, b |-> b, method |-> Method(Handler[b]), click |-> nclicks + 1]

\* the html lists an envelope can carry
PairSeqs == UNION {[1..n -> EnvSelectors \X Markup] : n \in 0..MaxPairs}

\* the answers the server can give to a handler's request
Responses(h) ==
    CASE h.kind = "envelope" -> [html : PairSeqs, message : Messages]
      [] h.kind = "keys" -> [html : [1..Len(h.targets) -> Markup], message : Messages]
      [] h.kind \in {"raw", "other"} -> [html : {<<m>> : m \in Markup}, message : {Absent}]
      [] OTHER -> {[html |-> <<>>, message |-> Absent]}

NoResponse == [html |-> <<>>, message |-> Absent]

\* $(selector).html(markup): replaces the content of the matched container,
\* and does nothing when the selector matches no element
SetHtml(d, selector, markup) ==
    IF selector \in DOMAIN d THEN [d EXCEPT ![selector] = markup] ELSE d

\* for (var html in data["html"]) $(data["html"][html][0]).html(data["html"][html][1]);
RECURSIVE ApplyHtmlFrom(_, _, _)
ApplyHtmlFrom(d, pairs, i) ==
    IF i > Len(pairs) THEN d
    ELSE ApplyHtmlFrom(SetHtml(d, pairs[i][1], pairs[i][2]), pairs, i + 1)

\* a variant that walks the list from its end, so that the first pair of a
\* repeated selector wins
ApplyHtmlBackwards(d, pairs) ==
    ApplyHtmlFrom(d, [i \in 1..Len(pairs) |-> pairs[Len(pairs) + 1 - i]], 1)

ApplyHtml(d, pairs) == ApplyHtmlFrom(d, pairs, 1)

\* $("#x").html(data["x"]); $("#y").html(data["y"]); ... one field per target
RECURSIVE ApplyKeysFrom(_, _, _, _)
ApplyKeysFrom(d, targets, fields, i) ==
    IF i > Len(targets) THEN d
    ELSE ApplyKeysFrom(SetHtml(d, targets[i], fields[i]), targets, fields, i + 1)

\* the document after a handler's success callback has patched it
Patch(h, d, resp) ==
    CASE h.kind = "envelope" -> ApplyHtml(d, resp.html)
      [] h.kind = "keys" -> ApplyKeysFrom(d, h.targets, resp.html, 1)
      [] h.kind = "raw" ->
            ApplyKeysFrom(d, h.targets, [i \in 1..Len(h.targets) |-> resp.html[1]], 1)
      [] OTHER -> d

\* $.jGrowl(text) shows one notification with the text it is given; an
\* undefined argument is rendered as the text "undefined"
jGrowl(g, text) == Append(g, IF text = Absent THEN "undefined" ELSE text)

FixedMessage == "Produkte wurden von Kategorie entfernt."

\* the notifications after a handler's success callback
Notify(h, g, resp) ==
    CASE h.growl = "guarded" -> IF resp.message # Absent THEN jGrowl(g, resp.message) ELSE g
      [] h.growl = "always" -> jGrowl(g, resp.message)
      [] h.growl = "fixed" -> jGrowl(g, FixedMessage)
      [] OTHER -> g

show_ajax_loading == TRUE
hide_ajax_loading == FALSE

(***************************************************************************)
(* SpecAjax: a page holding one bound element, its events and the answers  *)
(* to its requests, which arrive in any order or fail.                     *)
(***************************************************************************)
\* the sibling <div> of a .category-ajax-link, which holds the children
SiblingDiv == "#a"

Targets(h) == {h.targets[i] : i \in 1..Len(h.targets)}

PageContainers(pg) ==
    UNION {Targets(Handler[b]) : b \in pg} \cup
    (IF \E b \in pg : Handler[b].kind = "envelope" THEN EnvContainers ELSE {})

\* the pages of SpecAjax: one bound element each.  The .products-name-filter
\* field, whose handler needs the clock, is on a page of SpecFilter.
AjaxPages == {{b} : b \in Bindings \ {".products-name-filter"}}

\* the method attribute of the page's forms, which the markup decides; a page
\* whose handlers submit no form has none
FormMethods(pg) ==
    IF \E b \in pg : Handler[b].call \in {"form", "timer"} THEN {"GET", "POST"} ELSE {"NONE"}

\* the record of an event: what happened, on which binding, for which
\* request, and with which answer
Event(ev, b, id, resp) == [ev |-> ev, b |-> b, id |-> id, resp |-> resp]

\* the filter fields at rest, as on a page without any
\* the elements of the confirmation flow: the links of the page, and for the
\* k-th prompt built its outer <span> and the inner <span> that shows the text
Link(i) == [tag |-> "a", n |-> i]
PromptSpan(k) == [tag |-> "prompt", n |-> k]
TextSpan(k) == [tag |-> "span", n |-> k]
\* the value of a variable that was declared and never assigned
Undefined == [tag |-> "undefined", n |-> 0]

\* the places an element can be at
Slot(i) == [in |-> "slot", n |-> i]
FirstChildOf(k) == [in |-> "prompt", n |-> k]
Nowhere == [in |-> "nowhere", n |-> 0]

\* the URL of the management page itself
ManagePage == <<"/manage", 0>>

InitNoConfirm ==
    /\ place = <<>>
    /\ attrs = <<>>
    /\ yes = <<>>
    /\ confirmation = Undefined
    /\ location = ManagePage
    /\ nprompts = 0
    /\ origin = <<>>

InitNoExport ==
    /\ parentOf = <<>>
    /\ nodeKind = <<>>
    /\ checked = <<>>
    /\ stateText = <<>>

InitNoLayout == height = <<>>

InitNoCookies ==
    /\ cookie = <<>>
    /\ selectedTab = <<>>
    /\ fieldsVisible = FALSE
    /\ written = <<>>

\* a specification that does not model the server leaves its variables empty
InitNoServer == exported = {} /\ answers = <<>>

\* a page without a products table, criteria or delete links
InitNoWidgets ==
    /\ marked = <<>>
    /\ selected = <<>>
    /\ criteria = <<>>
    /\ dialogOpen = FALSE
    /\ deleteUrl = <<>>
    /\ clicked = <<>>

InitNoFilter ==
    /\ clock = 0
    /\ timers = {}
    /\ timeout = 0
    /\ fieldVal = <<>>
    /\ keys = <<>>

InitAjax ==
    /\ page \in AjaxPages
    /\ formMethod \in FormMethods(page)
    /\ net = {}
    /\ sent = <<>>
    /\ nextId = 1
    /\ nclicks = 0
    /\ dom = [c \in PageContainers(page) |-> InitialMarkup]
    /\ loading = FALSE
    /\ growls = <<>>
    /\ linkClass = "collapsed"
    /\ arrived = <<>>
    /\ last = Event("load", "", 0, NoResponse)
    /\ InitNoFilter
    /\ InitNoConfirm
    /\ InitNoExport
    /\ InitNoLayout
    /\ InitNoCookies
    /\ InitNoServer
    /\ InitNoWidgets

\* a variant in which every handler submits, also the client-side ones
IssueAlways(b) ==
    /\ net' = net \cup {NewRequest(b)}
    /\ sent' = Append(sent, NewRequest(b))
    /\ nextId' = nextId + 1

\* the request part of a handler: $.get / $.post / ajaxSubmit, or nothing
Issue(b) ==
    IF Handler[b].call = "none"
    THEN UNCHANGED <<net, sent, nextId>>
    ELSE /\ net' = net \cup {NewRequest(b)}
         /\ sent' = Append(sent, NewRequest(b))
         /\ nextId' = nextId + 1

\* the user triggers the event of binding b on its element
Trigger(b) ==
    /\ b \in page
    /\ b # ".category-ajax-link"
    /\ nclicks < MaxClicks
    /\ nclicks' = nclicks + 1
    /\ loading' = IF Handler[b].pre THEN show_ajax_loading ELSE loading
    /\ Issue(b)
    /\ last' = Event("trigger", b, 0, NoResponse)
    /\ UNCHANGED <<page, formMethod, dom, growls, linkClass, arrived>>
    /\ UNCHANGED <<filterVars, confirmVars, exportVars, layoutVars, cookieVars,
                   serverVars, widgetVars>>

\* a click on the .category-ajax-link: expand (load the children) or collapse
CategoryAjaxLinkClick ==
    /\ ".category-ajax-link" \in page
    /\ nclicks < MaxClicks
    /\ nclicks' = nclicks + 1
    /\ IF linkClass = "collapsed"
       THEN /\ net' = net \cup {NewRequest(".category-ajax-link")}
            /\ sent' = Append(sent, NewRequest(".category-ajax-link"))
            /\ nextId' = nextId + 1
            /\ linkClass' = "expanded"
            /\ dom' = dom
       ELSE /\ dom' = SetHtml(dom, SiblingDiv, "")
            /\ linkClass' = "collapsed"
            /\ UNCHANGED <<net, sent, nextId>>
    /\ last' = Event("trigger", ".category-ajax-link", 0, NoResponse)
    /\ UNCHANGED <<page, formMethod, loading, growls, arrived>>
    /\ UNCHANGED <<filterVars, confirmVars, exportVars, layoutVars, cookieVars,
                   serverVars, widgetVars>>

\* a variant with request sequencing: the answer of a request older than one
\* already answered is dropped
SuccessNewestOnly(r, resp) ==
    /\ net' = net \ {r}
    /\ IF \E i \in 1..Len(arrived) : arrived[i] > r.id
       THEN UNCHANGED <<dom, growls, loading>>
       ELSE /\ dom' = Patch(Handler[r.b], dom, resp)
            /\ growls' = Notify(Handler[r.b], growls, resp)
            /\ loading' = IF Handler[r.b].hide THEN hide_ajax_loading ELSE loading
    /\ arrived' = Append(arrived, r.id)
    /\ last' = Event("success", r.b, r.id, resp)
    /\ UNCHANGED <<page, formMethod, sent, nextId, nclicks, linkClass>>
    /\ UNCHANGED <<filterVars, confirmVars, exportVars, layoutVars, cookieVars,
                   serverVars, widgetVars>>

\* the success callback of request r runs with the answer resp
Success(r, resp) ==
    /\ net' = net \ {r}
    /\ dom' = Patch(Handler[r.b], dom, resp)
    /\ growls' = Notify(Handler[r.b], growls, resp)
    /\ loading' = IF Handler[r.b].hide THEN hide_ajax_loading ELSE loading
    /\ arrived' = Append(arrived, r.id)
    /\ last' = Event("success", r.b, r.id, resp)
    /\ UNCHANGED <<page, formMethod, sent, nextId, nclicks, linkClass>>
    /\ UNCHANGED <<filterVars, confirmVars, exportVars, layoutVars, cookieVars,
                   serverVars, widgetVars>>

Succeed ==
    \E r \in net : \E resp \in Responses(Handler[r.b]) : Success(r, resp)

\* request r fails: no handler passes an error callback, so nothing runs
Fail ==
    \E r \in net :
        /\ net' = net \ {r}
        /\ last' = Event("fail", r.b, r.id, NoResponse)
        /\ UNCHANGED <<page, formMethod, sent, nextId, nclicks, dom, loading, growls,
                       linkClass, arrived>>
        /\ UNCHANGED <<filterVars, confirmVars, exportVars, layoutVars, cookieVars,
                       serverVars, widgetVars>>

NextAjax ==
    \/ \E b \in Bindings : Trigger(b)
    \/ CategoryAjaxLinkClick
    \/ Succeed
    \/ Fail

SpecAjax == InitAjax /\ [][NextAjax]_vars


(***************************************************************************)
(* Properties of SpecAjax.                                                 *)
(***************************************************************************)
\* the index of the last pair of the list that names selector c, 0 when no
\* pair names it
LastPairFor(pairs, c) ==
    LET I == {i \in 1..Len(pairs) : pairs[i][1] = c}
    IN  IF I = {} THEN 0 ELSE CHOOSE i \in I : \A j \in I : j <= i

\* the handlers the envelope claim names
EnvelopeHandlers ==
    {".ajax-save-button", ".ajax-save-button-2", ".ajax-link", "#product-name-filter",
     ".category-ajax-link"}

\* the requests a step has issued
Issued == SubSeq(sent', Len(sent) + 1, Len(sent'))

\* C6 as stated: when the only request of a page fails, the document is as
\* it was before the event that issued the request: every container has its
\* initial content, the loading indicator is hidden as before, and the
\* category link has the class it had.
C6_FailedRequestLeavesDomUnchanged ==
    (last.ev = "fail" /\ nclicks = 1) =>
        /\ dom = [c \in PageContainers(page) |-> InitialMarkup]
        /\ loading = FALSE
        /\ linkClass = "collapsed"

\* C7 as stated: whenever a success callback runs, an answer with a
\* message adds exactly one notification with that text and an answer
\* without a message adds none.
C7_MessageIffOneNotification ==
    [][last'.ev = "success" =>
        growls' = IF last'.resp.message # Absent
                  THEN Append(growls, last'.resp.message)
                  ELSE growls]_vars

\* C8: when the success callback of an envelope handler runs, every container
\* named in the html list ends up with the markup of the last pair that names
\* it, and every container that no pair names keeps its content.
C8_EnvelopeAppliedInOrder ==
    [][(last'.ev = "success" /\ last'.b \in EnvelopeHandlers) =>
        /\ DOMAIN dom' = DOMAIN dom
        /\ \A c \in DOMAIN dom :
              LET i == LastPairFor(last'.resp.html, c)
              IN  dom'[c] = IF i = 0 THEN dom[c] ELSE last'.resp.html[i][2]]_vars

\* C8 witness: an envelope whose two pairs name the same container with
\* different markup has been applied, and the container holds the later one.
C8_Witness ==
    /\ last.ev = "success"
    /\ last.b \in EnvelopeHandlers
    /\ Len(last.resp.html) = 2
    /\ last.resp.html[1][1] = last.resp.html[2][1]
    /\ last.resp.html[1][2] # last.resp.html[2][2]
    /\ dom[last.resp.html[2][1]] = last.resp.html[2][2]

\* the bindings whose handler touches the document only
C9_ClientOnly ==
    {".popup-link", "#product-tabs", "#category-tabs", ".criterion-delete-button",
     ".delete-all", ".select-all", ".select-all-1", ".select-all-2", ".upload-file:last",
     ".show-selected", ".show-current", "input.select-1", ".confirmation-link-no",
     ".confirmation-link", "#id_filterable", "#id_configurable", ".delete-link",
     "#delete-dialog button", ".property-edit-mode"}
\* the bindings whose handler calls $.get
C9_Get ==
    {".edit-price-criteria-button", ".category-products-page-link", ".products-reset-link",
     ".selectable-products-page-link", ".selectable-products-reset-link",
     ".accessories-page-link", ".related-products-page-link", ".products-page-link",
     ".portlet-edit-button", ".topseller-page-link", ".featured-page-link"}
\* the bindings whose handler calls $.post, or ajaxSubmit with "type": "post"
C9_Post ==
    {".ajax-link", ".criterion-add-first-button", ".criterion-add-button",
     "select.criterion-type", ".property-change-button", ".category-variants-options",
     ".filter-accessories-input", ".seo-save-button", ".product-stock-button",
     ".filter-products-input"}

\* C9 as stated: every event on a bound element issues exactly one request.
C9_ExactlyOneCallPerEvent ==
    [][last'.ev = "trigger" => Len(Issued) = 1]_vars

\* C9: an event on a bound element issues no request when the
\* handler is client-side only, and otherwise exactly one: a GET for $.get, a
\* POST for $.post and for ajaxSubmit with type post, a request with the
\* form's own method for any other ajaxSubmit; the .category-ajax-link issues
\* one POST when it is collapsed and none when it is expanded.
C9_CallsPerEvent ==
    [][last'.ev = "trigger" =>
        LET b == last'.b
            One(m) == Len(Issued) = 1 /\ Issued[1].b = b /\ Issued[1].method = m
        IN  CASE b \in C9_ClientOnly -> Issued = <<>>
              [] b = ".category-ajax-link" ->
                    IF linkClass = "collapsed" THEN One("POST") ELSE Issued = <<>>
              [] b \in C9_Get -> One("GET")
              [] b \in C9_Post -> One("POST")
              [] OTHER -> One(formMethod)]_vars

\* C9 witness: a click on .delete-all has been handled and no request exists.
C9_Witness ==
    /\ last.ev = "trigger"
    /\ last.b = ".delete-all"
    /\ nclicks = 1
    /\ sent = <<>>
    /\ net = {}

\* C10: nothing deduplicates or cancels: an event of a request-issuing
\* handler adds a request of its own to those in flight, whatever is in
\* flight already; an answer is applied when it arrives, whatever arrived
\* before it, so a container it writes holds its content afterwards.
C10_NoDedupLastArrivalWins ==
    [][/\ (last'.ev = "trigger" /\ Handler[last'.b].call # "none"
             /\ last'.b # ".category-ajax-link") =>
            /\ net \subseteq net'
            /\ Cardinality(net') = Cardinality(net) + 1
       /\ last'.ev = "success" =>
            /\ Cardinality(net') = Cardinality(net) - 1
            /\ LET h == Handler[last'.b]
                   html == last'.resp.html
               IN  CASE h.kind = "envelope" ->
                           \A c \in DOMAIN dom :
                               LET i == LastPairFor(html, c)
                               IN  i # 0 => dom'[c] = html[i][2]
                     [] h.kind = "keys" ->
                           \A i \in 1..Len(h.targets) :
                               (\A j \in 1..(i - 1) : h.targets[j] # h.targets[i]) =>
                                   dom'[h.targets[i]] = html[i]
                     [] h.kind = "raw" -> \A c \in Targets(h) : dom'[c] = html[1]
                     [] OTHER -> TRUE]_vars

\* C10 witness: two clicks on .ajax-link; the answer of the second request
\* arrived first and wrote #b, the answer of the first request arrived last,
\* named #a only, and #a holds its markup.
C10_Witness ==
    /\ page = {".ajax-link"}
    /\ arrived = <<2, 1>>
    /\ last.ev = "success"
    /\ last.id = 1
    /\ last.resp.html = << <<"#a", "m1">> >>
    /\ dom["#a"] = "m1"
    /\ dom["#b"] = "m2"


\* C21: on a page of a handler that calls show_ajax_loading, the indicator
\* is visible whenever a request is in flight, and it is hidden when every
\* request issued has been answered
C21_LoadingWhileInFlight ==
    (\A b \in page : Handler[b].pre) =>
        /\ net # {} => loading
        /\ (sent # <<>> /\ Len(arrived) = Len(sent)) => ~loading

\* C18: once the .category-ajax-link has been clicked, whenever it is
\* collapsed and no request is in flight its sibling <div> is empty
C18_CollapsedLinkHasNoChildren ==
    (/\ page = {".category-ajax-link"}
     /\ nclicks > 0
     /\ linkClass = "collapsed"
     /\ net = {}) => dom[SiblingDiv] = ""

(***************************************************************************)
(* SpecFilter: the free-text filter fields.  A page holds one filter       *)
(* binding; the products overview page holds MaxFields fields matching     *)
(* .products-name-filter, each in its own form.  Time advances in ticks of *)
(* 100 ms; a timer runs at the tick it is due.                             *)
(***************************************************************************)
\* the delay of the setTimeout call, 500 ms, in ticks
Quiet == 5

FilterBindings ==
    {"#product-name-filter", ".category-products-filter-input",
     ".category-selected-products-filter-input", ".products-name-filter",
     "#selectable-products-filter-input", ".filter-accessories-input",
     ".filter-related-products-input", ".filter-products-input",
     ".filter-topseller-input", ".filter-featured-input"}

FilterPages == {{b} : b \in FilterBindings}

\* the filter fields of a page, numbered; field f is in form f
Fields(pg) == IF pg = {".products-name-filter"} THEN 1..MaxFields ELSE {1}

\* what a field can hold after a keystroke; a field is empty at page load
Values == {"a", "ab"}

TheBinding == CHOOSE b \in page : TRUE

\* form.ajaxSubmit(...): the form is serialized when the call is made
Submit(form) ==
    [id |-> nextId, b |-> TheBinding, method |-> Method(Handler[TheBinding]),
     click |-> Len(keys), form |-> form, data |-> fieldVal[form], t |-> clock]

InitFilter ==
    /\ page \in FilterPages
    /\ formMethod \in FormMethods(page)
    /\ net = {}
    /\ sent = <<>>
    /\ nextId = 1
    /\ nclicks = 0
    /\ dom = [c \in PageContainers(page) |-> InitialMarkup]
    /\ loading = FALSE
    /\ growls = <<>>
    /\ linkClass = "collapsed"
    /\ arrived = <<>>
    /\ last = Event("load", "", 0, NoResponse)
    /\ clock = 0
    /\ timers = {}
    /\ timeout = 0
    /\ fieldVal = [f \in Fields(page) |-> ""]
    /\ keys = <<>>
    /\ InitNoConfirm
    /\ InitNoExport
    /\ InitNoLayout
    /\ InitNoCookies
    /\ InitNoServer
    /\ InitNoWidgets

\* a variant of clearTimeout that cancels nothing
clearTimeoutNothing(id) == timers

\* try { clearTimeout(timeout); } catch(e) {}: the timer with this id, if it
\* is still pending, is cancelled; an unknown id cancels nothing
clearTimeout(id) == {tm \in timers : tm.id # id}

\* the user types in field f, which then holds v: the browser changes the
\* value and raises keyup
Typed(f, v) ==
    /\ Len(keys) < MaxKeys
    /\ f \in Fields(page)
    /\ fieldVal' = [fieldVal EXCEPT ![f] = v]
    /\ keys' = Append(keys, [f |-> f, t |-> clock, val |-> v])

\* a variant of the .products-name-filter handler that submits at once
ProductsNameFilterKeyupEager(f, v) ==
    /\ page = {".products-name-filter"}
    /\ Typed(f, v)
    /\ LET r == [Submit(f) EXCEPT !.data = v, !.click = Len(keys) + 1]
       IN  /\ net' = net \cup {r}
           /\ sent' = Append(sent, r)
    /\ nextId' = nextId + 1
    /\ UNCHANGED <<clock, timers, timeout>>
    /\ UNCHANGED <<page, formMethod, nclicks, dom, loading, growls, linkClass, arrived, last>>
    /\ UNCHANGED <<confirmVars, exportVars, layoutVars, cookieVars, serverVars, widgetVars>>

\* keyup on a .products-name-filter field: the pending timer is cancelled and
\* a new one is set, which submits the field's form after the quiet interval
ProductsNameFilterKeyup(f, v) ==
    /\ page = {".products-name-filter"}
    /\ Typed(f, v)
    /\ timers' = clearTimeout(timeout) \cup
                    {[id |-> Len(keys) + 1, due |-> clock + Quiet, form |-> f]}
    /\ timeout' = Len(keys) + 1
    /\ UNCHANGED <<clock, net, sent, nextId>>
    /\ UNCHANGED <<page, formMethod, nclicks, dom, loading, growls, linkClass, arrived, last>>
    /\ UNCHANGED <<confirmVars, exportVars, layoutVars, cookieVars, serverVars, widgetVars>>

\* the callback of a timer runs at the tick the timer is due
TimerFires ==
    \E tm \in timers :
        /\ tm.due = clock
        /\ timers' = timers \ {tm}
        /\ net' = net \cup {Submit(tm.form)}
        /\ sent' = Append(sent, Submit(tm.form))
        /\ nextId' = nextId + 1
        /\ UNCHANGED <<clock, timeout, fieldVal, keys>>
        /\ UNCHANGED <<page, formMethod, nclicks, dom, loading, growls, linkClass, arrived,
                       last>>
        /\ UNCHANGED <<confirmVars, exportVars, layoutVars, cookieVars, serverVars, widgetVars>>

\* keyup on any other filter field: its form is submitted at once
FilterKeyup(v) ==
    /\ page # {".products-name-filter"}
    /\ Typed(1, v)
    /\ LET r == [Submit(1) EXCEPT !.data = v, !.click = Len(keys) + 1]
       IN  /\ net' = net \cup {r}
           /\ sent' = Append(sent, r)
    /\ nextId' = nextId + 1
    /\ UNCHANGED <<clock, timers, timeout>>
    /\ UNCHANGED <<page, formMethod, nclicks, dom, loading, growls, linkClass, arrived, last>>
    /\ UNCHANGED <<confirmVars, exportVars, layoutVars, cookieVars, serverVars, widgetVars>>

\* 100 ms pass; a timer that is due runs first
Tick ==
    /\ clock < MaxTime
    /\ \A tm \in timers : tm.due > clock
    /\ clock' = clock + 1
    /\ UNCHANGED <<timers, timeout, fieldVal, keys>>
    /\ UNCHANGED <<ajaxVars, confirmVars, exportVars, layoutVars, cookieVars,
                   serverVars, widgetVars>>

NextFilter ==
    \/ \E f \in 1..MaxFields, v \in Values : ProductsNameFilterKeyup(f, v)
    \/ \E v \in Values : FilterKeyup(v)
    \/ TimerFires
    \/ Tick

SpecFilter == InitFilter /\ [][NextFilter]_vars

\* the keystrokes so far are a burst in one field: each follows the one before
\* it within the quiet interval
Burst ==
    /\ Len(keys) >= 1
    /\ \A i \in 1..Len(keys) :
          /\ keys[i].f = keys[1].f
          /\ i > 1 => keys[i].t - keys[i-1].t < Quiet

\* keystrokes at 0 ms, 100 ms and 200 ms in one .products-name-filter field,
\* and none since
ThreeKeystrokes ==
    /\ page = {".products-name-filter"}
    /\ Len(keys) = 3
    /\ keys[1].t = 0 /\ keys[2].t = 1 /\ keys[3].t = 2
    /\ keys[2].f = keys[1].f /\ keys[3].f = keys[1].f

\* C1: on the products page every keystroke cancels the pending submission and
\* schedules a new one 500 ms later, so at most one submission is pending and
\* it is the one of the last keystroke; after keystrokes at 0, 100 and 200 ms
\* and silence nothing is sent before 700 ms, and from 700 ms on exactly one
\* request has been sent, at 700 ms, from the form of the field, carrying the
\* value the field got at 200 ms.
C1_DebouncedFilter ==
    /\ page = {".products-name-filter"} =>
          \A tm \in timers :
              /\ timers = {tm}
              /\ tm.id = timeout
              /\ tm.due = keys[Len(keys)].t + Quiet
              /\ tm.form = keys[Len(keys)].f
    /\ ThreeKeystrokes =>
          /\ clock < 2 + Quiet => sent = <<>> /\ timers # {}
          /\ clock > 2 + Quiet =>
                /\ timers = {}
                /\ Len(sent) = 1
                /\ sent[1].t = 2 + Quiet
                /\ sent[1].form = keys[3].f
                /\ sent[1].data = keys[3].val

C1_Witness ==
    /\ ThreeKeystrokes
    /\ keys[1].val = "a" /\ keys[3].val = "ab"
    /\ clock = 2 + Quiet + 1
    /\ Len(sent) = 1
    /\ sent[1].t = 2 + Quiet
    /\ sent[1].data = "ab"

\* C2 as stated: on every filter page a burst of keystrokes in one field
\* issues at most one request.
C2_AtMostOneRequestPerBurst == Burst => Len(sent) <= 1

\* C2: a burst of keystrokes in one .products-name-filter field issues at most
\* one request; on each of the nine other filter fields every keystroke issues
\* a request of its own, carrying the value the field has at that keystroke.
C2_OnlyProductsNameFilterDebounced ==
    /\ (Burst /\ page = {".products-name-filter"}) => Len(sent) <= 1
    /\ page # {".products-name-filter"} =>
          /\ Len(sent) = Len(keys)
          /\ \A i \in 1..Len(keys) :
                sent[i].t = keys[i].t /\ sent[i].data = keys[i].val

C2_Witness ==
    /\ page = {".filter-accessories-input"}
    /\ Burst
    /\ Len(keys) = 2
    /\ keys[2].t = keys[1].t + 1
    /\ Len(sent) = 2


(***************************************************************************)
(* SpecConfirm: the inline yes/no confirmation prompt.  The page holds     *)
(* MaxLinks links of class confirmation-link, link i in slot i.            *)
(***************************************************************************)
\* an attribute the element does not have: .attr() gives undefined
NoAttr == <<>>

\* "..." + v: an undefined value is written as the text undefined
Str(v) == IF v = NoAttr THEN <<"undefined">> ELSE v

LinkAttrs(i) ==
    [href |-> <<"/delete", i>>, data |-> <<"Really delete?", i>>,
     class |-> "confirmation-link", text |-> <<"Delete", i>>]

InitNoAjax ==
    /\ formMethod = "NONE"
    /\ net = {}
    /\ sent = <<>>
    /\ nextId = 1
    /\ nclicks = 0
    /\ dom = <<>>
    /\ loading = FALSE
    /\ growls = <<>>
    /\ linkClass = "collapsed"
    /\ arrived = <<>>
    /\ last = Event("load", "", 0, NoResponse)

InitConfirm ==
    /\ page = {".confirmation-link", ".confirmation-link-no"}
    /\ InitNoAjax
    /\ InitNoFilter
    /\ InitNoExport
    /\ InitNoLayout
    /\ InitNoCookies
    /\ InitNoServer
    /\ InitNoWidgets
    /\ place = [e \in {Link(i) : i \in 1..MaxLinks} |-> Slot(e.n)]
    /\ attrs = [e \in {Link(i) : i \in 1..MaxLinks} |-> LinkAttrs(e.n)]
    /\ yes = <<>>
    /\ confirmation = Undefined
    /\ location = ManagePage
    /\ nprompts = 0
    /\ origin = <<>>

\* the element is in the document: in a slot of the page, or inside a prompt
\* that is in the document
RECURSIVE IsInDocument(_, _)
IsInDocument(pl, e) ==
    CASE pl[e].in = "slot" -> TRUE
      [] pl[e].in = "prompt" -> IsInDocument(pl, PromptSpan(pl[e].n))
      [] OTHER -> FALSE

InDocument(e) == IsInDocument(place, e)

\* old.replaceWith(new): new is taken from where it is and put at the place
\* of old, and old leaves the document; replaceWith(undefined) removes old
replaceWith(old, new) ==
    IF new = Undefined
    THEN [place EXCEPT ![old] = Nowhere]
    ELSE [x \in DOMAIN place \cup {new} |->
            IF x = new THEN place[old] ELSE IF x = old THEN Nowhere ELSE place[x]]

\* the elements a click is delivered to the .confirmation-link handler for
ConfirmationLinks ==
    {e \in DOMAIN attrs : attrs[e].class = "confirmation-link" /\ InDocument(e)}

\* click on an element of class confirmation-link: the element is remembered
\* and replaced with a prompt built from its href, data and class attributes
ConfirmationLinkClick(e) ==
    /\ location = ManagePage
    /\ nprompts < MaxPrompts
    /\ e \in ConfirmationLinks
    /\ LET k == nprompts + 1
       IN  /\ confirmation' = e
           /\ place' = (TextSpan(k) :> FirstChildOf(k)) @@ replaceWith(e, PromptSpan(k))
           /\ attrs' = (TextSpan(k) :> [href |-> NoAttr, data |-> NoAttr,
                                        class |-> attrs[e].class,
                                        text |-> Str(attrs[e].data)]) @@ attrs
           /\ yes' = Append(yes, Str(attrs[e].href))
           /\ origin' = Append(origin, e)
           /\ nprompts' = k
           /\ last' = Event("click", ".confirmation-link", k, NoResponse)
    /\ UNCHANGED location
    /\ UNCHANGED <<page, formMethod, net, sent, nextId, nclicks, dom, loading, growls,
                   linkClass, arrived>>
    /\ UNCHANGED <<filterVars, exportVars, layoutVars, cookieVars, serverVars, widgetVars>>

\* a variant of the No handler that puts back the element the prompt was built for
ConfirmationLinkNoClickOrigin(k) ==
    /\ location = ManagePage
    /\ k \in 1..nprompts
    /\ InDocument(PromptSpan(k))
    /\ place' = replaceWith(PromptSpan(k), origin[k])
    /\ last' = Event("no", ".confirmation-link-no", k, NoResponse)
    /\ UNCHANGED <<attrs, yes, confirmation, location, nprompts, origin>>
    /\ UNCHANGED <<page, formMethod, net, sent, nextId, nclicks, dom, loading, growls,
                   linkClass, arrived>>
    /\ UNCHANGED <<filterVars, exportVars, layoutVars, cookieVars, serverVars, widgetVars>>

\* click on the No link of prompt k: the prompt is replaced with the
\* remembered element
ConfirmationLinkNoClick(k) ==
    /\ location = ManagePage
    /\ k \in 1..nprompts
    /\ InDocument(PromptSpan(k))
    /\ place' = replaceWith(PromptSpan(k), confirmation)
    /\ last' = Event("no", ".confirmation-link-no", k, NoResponse)
    /\ UNCHANGED <<attrs, yes, confirmation, location, nprompts, origin>>
    /\ UNCHANGED <<page, formMethod, net, sent, nextId, nclicks, dom, loading, growls,
                   linkClass, arrived>>
    /\ UNCHANGED <<filterVars, exportVars, layoutVars, cookieVars, serverVars, widgetVars>>

\* click on the Yes link of prompt k: no handler is bound to it, the browser
\* follows its href and the page is left
YesClick(k) ==
    /\ location = ManagePage
    /\ k \in 1..nprompts
    /\ InDocument(PromptSpan(k))
    /\ location' = yes[k]
    /\ last' = Event("yes", "a", k, NoResponse)
    /\ UNCHANGED <<place, attrs, yes, confirmation, nprompts, origin>>
    /\ UNCHANGED <<page, formMethod, net, sent, nextId, nclicks, dom, loading, growls,
                   linkClass, arrived>>
    /\ UNCHANGED <<filterVars, exportVars, layoutVars, cookieVars, serverVars, widgetVars>>

\* the elements that can carry the class confirmation-link
Clickable == {Link(i) : i \in 1..MaxLinks} \cup {TextSpan(k) : k \in 1..MaxPrompts}

NextConfirm ==
    \/ \E e \in Clickable : ConfirmationLinkClick(e)
    \/ \E k \in 1..MaxPrompts : ConfirmationLinkNoClick(k)
    \/ \E k \in 1..MaxPrompts : YesClick(k)

SpecConfirm == InitConfirm /\ [][NextConfirm]_vars

\* the element is out of the document and is not the remembered one
Lost(e) == ~InDocument(e) /\ confirmation # e

\* the only link clicked so far is the one prompt k was built for
NoOtherLinkClicked(k) ==
    \A j \in 1..nprompts : origin[j].tag = "a" => origin[j] = origin[k]

\* C3 as stated: a click on a link of class confirmation-link does not
\* navigate and puts a prompt at the place of the link; whatever is clicked
\* while the prompt is shown (no other link being clicked), No of the prompt
\* puts the link back at the place of the prompt with its attributes, and
\* Yes navigates to the href of the link.
C3_ConfirmationFlow ==
    [][/\ last'.ev = "click" =>
             /\ location' = location
             /\ place'[PromptSpan(last'.id)] = place[origin'[last'.id]]
       /\ (/\ last'.ev \in {"no", "yes"}
           /\ origin[last'.id].tag = "a"
           /\ NoOtherLinkClicked(last'.id)) =>
             IF last'.ev = "yes"
             THEN location' = attrs[origin[last'.id]].href
             ELSE /\ location' = location
                  /\ place'[origin[last'.id]] = place[PromptSpan(last'.id)]
                  /\ attrs'[origin[last'.id]] = LinkAttrs(origin[last'.id].n)]_vars

\* C4: every click on a confirmation link overwrites the one remembered
\* element, so a link that was remembered and is out of the document is from
\* then on neither in the document nor remembered; No on the prompt of link A
\* while another link B is the remembered element puts B at the place of A's
\* prompt and does not move A; and a link that is out of the document and not
\* remembered stays so for ever.
C4_SingleSlot ==
    [][/\ last'.ev = "click" =>
             /\ confirmation' = origin'[last'.id]
             /\ (/\ confirmation.tag = "a"
                 /\ confirmation # confirmation'
                 /\ ~InDocument(confirmation)) =>
                   ~IsInDocument(place', confirmation)
       /\ (/\ last'.ev = "no"
           /\ origin[last'.id].tag = "a"
           /\ confirmation.tag = "a"
           /\ confirmation # origin[last'.id]) =>
             /\ place'[confirmation] = place[PromptSpan(last'.id)]
             /\ place'[origin[last'.id]] = place[origin[last'.id]]
             /\ place'[origin[last'.id]] # place[PromptSpan(last'.id)]
             /\ confirmation' = confirmation
       /\ \A i \in 1..MaxLinks : Lost(Link(i)) => Lost(Link(i))']_vars

C4_Witness ==
    /\ last.ev = "no"
    /\ nprompts = 2
    /\ origin = <<Link(1), Link(2)>>
    /\ last.id = 1
    /\ confirmation = Link(2)
    /\ place[Link(2)] = Slot(1)
    /\ Lost(Link(1))
    /\ location = ManagePage


\* C19: a click on the text of a prompt does nothing: a prompt is built only
\* for a link, and the remembered element is overwritten only with a link,
\* so while the prompt of a link is shown and no other link is clicked the
\* remembered element stays that link.
C19_PromptTextClickDoesNothing ==
    [][/\ nprompts' > nprompts => origin'[nprompts'].tag = "a"
       /\ confirmation' # confirmation => confirmation'.tag = "a"]_vars

(***************************************************************************)
(* SpecExport: the export tree.  The document holds a tree of categories   *)
(* (li.category with a checkbox .export-category-input, a .category-state  *)
(* element and the list of its children) and products (li with a checkbox  *)
(* .export-product-input).                                                 *)
(***************************************************************************)
Nodes == 1..MaxNodes

\* the trees the server can render: node 1 is a top-level category; a
\* category is at top level or under a category, a product is under a
\* category.  The nodes are numbered level by level, so a node's parent never
\* has a smaller number than the parent of the node before it: every shape
\* of tree has such a numbering.  The page is rendered with nothing or with
\* everything exported.
Trees ==
    {t \in [parentOf : [Nodes -> 0..MaxNodes], nodeKind : [Nodes -> {"category", "product"}]] :
        /\ t.nodeKind[1] = "category"
        /\ \A n \in Nodes :
              /\ t.parentOf[n] < n
              /\ n > 1 => t.parentOf[n - 1] <= t.parentOf[n]
              /\ t.parentOf[n] # 0 => t.nodeKind[t.parentOf[n]] = "category"
              /\ t.nodeKind[n] = "product" => t.parentOf[n] # 0}

Categories == {n \in Nodes : nodeKind[n] = "category"}

\* what lfs_export_category_state can answer for a category: the content of
\* its .category-state element and the state of its checkbox
StateAnswers == {[text |-> "", checked |-> FALSE], [text |-> "1/2", checked |-> TRUE]}

InitExport ==
    /\ page = {".export-category-input", ".export-product-input"}
    /\ InitNoAjax
    /\ InitNoFilter
    /\ InitNoConfirm
    /\ InitNoLayout
    /\ InitNoCookies
    /\ InitNoServer
    /\ InitNoWidgets
    /\ \E t \in Trees : parentOf = t.parentOf /\ nodeKind = t.nodeKind
    /\ \E all \in BOOLEAN : checked = [n \in Nodes |-> all]
    /\ stateText = [n \in Nodes |-> ""]

\* the li elements above the li of node n, nearest first
RECURSIVE LiParents(_)
LiParents(n) == IF parentOf[n] = 0 THEN <<>> ELSE <<parentOf[n]>> \o LiParents(parentOf[n])

\* knot.parents("li.category") for the checkbox of node n, nearest first: the
\* li of n itself when n is a category, then the li of every category above
LiCategoryParents(n) ==
    LET IsCategory(m) == nodeKind[m] = "category"
    IN  SelectSeq(<<n>> \o LiParents(n), IsCategory)

\* knot.parent().find(...): the nodes whose elements are inside the li of n
Inside(n) == {m \in Nodes : \E i \in 1..Len(<<m>> \o LiParents(m)) : (<<m>> \o LiParents(m))[i] = n}

ExportRequest(id, b, click, node, action) ==
    [id |-> id, b |-> b, method |-> "POST", click |-> click, node |-> node,
     action |-> action]

\* a variant of update_parent_categories that asks for the nearest li.category only
update_nearest_category(r) ==
    LET lis == SubSeq(LiCategoryParents(r.node), 1, 1)
    IN  [i \in 1..Len(lis) |->
            ExportRequest(nextId + i - 1, "update_parent_categories", r.click, lis[i], "none")]

\* a variant of update_parent_categories that asks for every li above the
\* checkbox, the li of a product included
update_parent_lis(r) ==
    LET lis == <<r.node>> \o LiParents(r.node)
    IN  [i \in 1..Len(lis) |->
            ExportRequest(nextId + i - 1, "update_parent_categories", r.click, lis[i], "none")]

\* update_parent_categories(knot): one lfs_export_category_state request per
\* li.category above the checkbox
update_parent_categories(r) ==
    LET lis == LiCategoryParents(r.node)
    IN  [i \in 1..Len(lis) |->
            ExportRequest(nextId + i - 1, "update_parent_categories", r.click, lis[i], "none")]

\* a variant of update_sub_categories in which the client also works out the
\* state of the categories above the li by itself
update_sub_and_parent_categories(n) ==
    [c \in Nodes |-> IF c \in Inside(n) THEN ""
                     ELSE IF n \in Inside(c) THEN "1/2" ELSE stateText[c]]

\* update_sub_categories(knot): every .category-state inside the li is emptied
update_sub_categories(n) == [c \in Nodes |-> IF c \in Inside(n) THEN "" ELSE stateText[c]]

\* click on the checkbox of a category: the browser has toggled it; every
\* checkbox inside the li gets the same state and the category is added or removed
ExportCategoryInputClick(n) ==
    /\ n \in Categories
    /\ LET parent_checked == ~checked[n]
           r == ExportRequest(nextId, ".export-category-input", nclicks + 1, n,
                              IF parent_checked THEN "add" ELSE "remove")
       IN  /\ checked' = [m \in Nodes |-> IF m \in Inside(n) THEN parent_checked ELSE checked[m]]
           /\ net' = net \cup {r}
           /\ sent' = Append(sent, r)
           /\ last' = Event("trigger", r.b, r.id, NoResponse)
    /\ nextId' = nextId + 1
    /\ nclicks' = nclicks + 1
    /\ UNCHANGED <<page, formMethod, dom, loading, growls, linkClass, arrived>>
    /\ UNCHANGED <<parentOf, nodeKind, stateText>>
    /\ UNCHANGED <<filterVars, confirmVars, layoutVars, cookieVars, serverVars, widgetVars>>

\* click on the checkbox of a product: the product is added or removed
ExportProductInputClick(n) ==
    /\ n \in Nodes \ Categories
    /\ LET r == ExportRequest(nextId, ".export-product-input", nclicks + 1, n,
                              IF ~checked[n] THEN "add" ELSE "remove")
       IN  /\ checked' = [checked EXCEPT ![n] = ~checked[n]]
           /\ net' = net \cup {r}
           /\ sent' = Append(sent, r)
           /\ last' = Event("trigger", r.b, r.id, NoResponse)
    /\ nextId' = nextId + 1
    /\ nclicks' = nclicks + 1
    /\ UNCHANGED <<page, formMethod, dom, loading, growls, linkClass, arrived>>
    /\ UNCHANGED <<parentOf, nodeKind, stateText>>
    /\ UNCHANGED <<filterVars, confirmVars, layoutVars, cookieVars, serverVars, widgetVars>>

\* the answer to the add or remove request r: the callback of the category
\* checkbox empties the states below, both callbacks ask for the states above
EditSuccessOf(r) ==
    /\ r.b \in {".export-category-input", ".export-product-input"}
    /\ stateText' = IF r.b = ".export-category-input"
                    THEN update_sub_categories(r.node) ELSE stateText
    /\ net' = (net \ {r}) \cup
                 {update_parent_categories(r)[i] : i \in 1..Len(update_parent_categories(r))}
    /\ sent' = sent \o update_parent_categories(r)
    /\ nextId' = nextId + Len(update_parent_categories(r))
    /\ UNCHANGED arrived
    /\ last' = Event("success", r.b, r.id, NoResponse)
    /\ UNCHANGED <<page, formMethod, nclicks, dom, loading, growls, linkClass>>
    /\ UNCHANGED <<parentOf, nodeKind, checked>>
    /\ UNCHANGED <<filterVars, confirmVars, layoutVars, cookieVars, serverVars, widgetVars>>

EditSuccess == \E r \in net : EditSuccessOf(r)

\* the answer to the state request r: the .category-state element and the
\* checkbox the answer names are set as the answer says
StateSuccessOf(r, answer) ==
    /\ r.b = "update_parent_categories"
    /\ stateText' = [stateText EXCEPT ![r.node] = answer.text]
    /\ checked' = [checked EXCEPT ![r.node] = answer.checked]
    /\ net' = net \ {r}
    /\ UNCHANGED arrived
    /\ last' = Event("state", r.b, r.id, answer)
    /\ UNCHANGED <<page, formMethod, sent, nextId, nclicks, dom, loading, growls,
                   linkClass>>
    /\ UNCHANGED <<parentOf, nodeKind>>
    /\ UNCHANGED <<filterVars, confirmVars, layoutVars, cookieVars, serverVars, widgetVars>>

StateSuccess == \E r \in net, answer \in StateAnswers : StateSuccessOf(r, answer)

\* a request of the export tree fails: no callback runs
ExportFail ==
    \E r \in net :
        /\ net' = net \ {r}
        /\ last' = Event("fail", r.b, r.id, NoResponse)
        /\ UNCHANGED <<page, formMethod, sent, nextId, nclicks, dom, loading, growls,
                       linkClass, arrived>>
        /\ UNCHANGED exportVars
        /\ UNCHANGED <<filterVars, confirmVars, layoutVars, cookieVars, serverVars, widgetVars>>

\* a checkbox is clicked while fewer than MaxToggles requests have been sent
ToggleCategory(n) == Len(sent) < MaxToggles /\ ExportCategoryInputClick(n)

ToggleProduct(n) == Len(sent) < MaxToggles /\ ExportProductInputClick(n)

NextExport ==
    \/ \E n \in Nodes : ToggleCategory(n)
    \/ \E n \in Nodes : ToggleProduct(n)
    \/ EditSuccess
    \/ StateSuccess
    \/ ExportFail

SpecExport == InitExport /\ [][NextExport]_vars

\* node m is node n or is listed, at any depth, under node n
RECURSIVE Under(_, _)
Under(m, n) == m = n \/ (parentOf[m] # 0 /\ Under(parentOf[m], n))

\* how many of the requests issued by this step are state requests for category c
StateRequestsFor(c) ==
    Cardinality({i \in 1..Len(Issued) :
                    /\ Issued[i].b = "update_parent_categories"
                    /\ Issued[i].node = c})

C14_AncestorsFromServerOnly ==
    [][/\ \A i \in 1..Len(Issued) :
             Issued[i].b = "update_parent_categories" =>
                /\ last'.ev = "success"
                /\ sent[last'.id] \in net
                /\ sent[last'.id].action \in {"add", "remove"}
                /\ sent[last'.id].click = Issued[i].click
       /\ last'.ev \in {"trigger", "success"} =>
             \A a \in Nodes :
                 (a # sent'[last'.id].node /\ Under(sent'[last'.id].node, a)) =>
                     checked'[a] = checked[a] /\ stateText'[a] = stateText[a]
       /\ last'.ev = "state" =>
             \A a \in Nodes :
                 IF a = sent[last'.id].node
                 THEN checked'[a] = last'.resp.checked /\ stateText'[a] = last'.resp.text
                 ELSE checked'[a] = checked[a] /\ stateText'[a] = stateText[a]
       /\ last'.ev = "fail" => checked' = checked /\ stateText' = stateText]_vars

C14_Witness ==
    /\ parentOf = <<0, 1, 2>>
    /\ nodeKind = <<"category", "category", "product">>
    /\ last.ev = "state"
    /\ sent[1].node = 3 /\ sent[1].action = "add"
    /\ sent[last.id].node = 1
    /\ last.resp.text = "1/2"
    /\ stateText = <<"1/2", "", "">>
    /\ checked = <<TRUE, FALSE, TRUE>>

\* C26: a click that toggles the checkbox of a product changes no other
\* checkbox and no indicator and issues exactly one request, a POST for the
\* product with action add when it is now checked and remove when it is not;
\* the answer to that request issues exactly one state request for every
\* category the product is listed under and no other request, and changes
\* neither a checkbox nor an indicator.
C26_ProductToggle ==
    [][/\ (last'.ev = "trigger" /\ last'.b = ".export-product-input") =>
             LET r == sent'[last'.id]
             IN  /\ \A m \in Nodes :
                       checked'[m] = IF m = r.node THEN ~checked[m] ELSE checked[m]
                 /\ stateText' = stateText
                 /\ Issued = <<r>>
                 /\ r.method = "POST"
                 /\ r.action = IF checked'[r.node] THEN "add" ELSE "remove"
       /\ (last'.ev = "success" /\ last'.b = ".export-product-input") =>
             /\ \A c \in Nodes :
                   StateRequestsFor(c) =
                       IF c # sent[last'.id].node /\ Under(sent[last'.id].node, c)
                       THEN 1 ELSE 0
             /\ \A i \in 1..Len(Issued) : Issued[i].b = "update_parent_categories"
             /\ checked' = checked
             /\ stateText' = stateText]_vars

C26_Witness ==
    /\ parentOf = <<0, 1, 2>>
    /\ nodeKind = <<"category", "category", "product">>
    /\ last.ev = "success"
    /\ last.b = ".export-product-input"
    /\ Len(sent) = 3
    /\ sent[1].node = 3 /\ sent[1].action = "remove"
    /\ sent[2].node = 2 /\ sent[3].node = 1
    /\ checked = <<TRUE, TRUE, FALSE>>

(***************************************************************************)
(* SpecServer: the export tree together with the server.  The server code  *)
(* is not part of the file; it is modelled by what the specification says  *)
(* of it: a category is unchecked, partially checked or fully checked      *)
(* according to the products below it, and it answers a request from the   *)
(* state it has when it handles the request.  Requests are handled and     *)
(* answered in any order; none fails.                                      *)
(***************************************************************************)
Products == Nodes \ Categories

\* the state of category c when the products in ex are exported
ServerState(c, ex) ==
    IF (Inside(c) \cap Products) \cap ex = {} THEN [text |-> "", checked |-> FALSE]
    ELSE IF (Inside(c) \cap Products) \subseteq ex THEN [text |-> "", checked |-> TRUE]
    ELSE [text |-> "1/2", checked |-> TRUE]

Shown(c) == [text |-> stateText[c], checked |-> checked[c]]

InitServer ==
    /\ page = {".export-category-input", ".export-product-input"}
    /\ InitNoAjax
    /\ InitNoFilter
    /\ InitNoConfirm
    /\ InitNoLayout
    /\ InitNoCookies
    /\ \E t \in Trees : parentOf = t.parentOf /\ nodeKind = t.nodeKind
    /\ InitNoWidgets
    /\ exported = {}
    /\ answers = <<>>
    /\ checked = [n \in Nodes |-> FALSE]
    /\ stateText = [n \in Nodes |-> ""]

\* the server handles a request: add and remove change the export, and the
\* answer is computed from the export as it is then
ServerHandles ==
    \E r \in net :
        /\ r.id \notin DOMAIN answers
        /\ LET ex == IF r.action = "add" THEN exported \cup (Inside(r.node) \cap Products)
                     ELSE IF r.action = "remove"
                          THEN exported \ (Inside(r.node) \cap Products)
                          ELSE exported
           IN  /\ exported' = ex
               /\ answers' = [i \in DOMAIN answers \cup {r.id} |->
                                 IF i = r.id THEN ServerState(r.node, ex) ELSE answers[i]]
        /\ UNCHANGED <<ajaxVars, filterVars, confirmVars, exportVars, layoutVars, cookieVars,
                       widgetVars>>

\* a checkbox is clicked while fewer than MaxClicks requests have been sent
QuickToggleCategory(n) == Len(sent) < MaxClicks /\ ExportCategoryInputClick(n)

QuickToggleProduct(n) == Len(sent) < MaxClicks /\ ExportProductInputClick(n)

\* the answer of the server to a handled request arrives
ServedEdit == \E r \in net : r.id \in DOMAIN answers /\ EditSuccessOf(r)

ServedState == \E r \in net : r.id \in DOMAIN answers /\ StateSuccessOf(r, answers[r.id])

NextServer ==
    \/ \E n \in Nodes : QuickToggleCategory(n)
    \/ \E n \in Nodes : QuickToggleProduct(n)
    \/ ServerHandles
    \/ ServedEdit
    \/ ServedState

SpecServer == InitServer /\ [][NextServer]_vars

\* C17: when no request is in flight, every category a toggled node is listed
\* under shows the state the server has for it
C17_QuiescentTreeShowsServerState ==
    net = {} =>
        \A i \in 1..Len(sent) :
            sent[i].action \in {"add", "remove"} =>
                \A a \in Categories : Under(sent[i].node, a) => Shown(a) = ServerState(a, exported)

(***************************************************************************)
(* SpecLayout: the two-column available/selected lists.  The product page  *)
(* holds the accessories and the related products lists, the topseller and *)
(* the featured page hold their own list.  The columns X-left and X-right  *)
(* of a list are part of the fragment rendered into X-inline.              *)
(***************************************************************************)
\* the list each container holds
ListIn ==
    ("#accessories-inline" :> "#accessories") @@
    ("#related-products-inline" :> "#related-products") @@
    ("#topseller-inline" :> "#topseller") @@
    ("#featured-inline" :> "#featured")

Lists == {ListIn[c] : c \in DOMAIN ListIn}

Left(id) == <<id, "-left">>
Right(id) == <<id, "-right">>

LayoutBindings ==
    DOMAIN AccessoriesBindings \cup DOMAIN RelatedProductsBindings \cup
    DOMAIN TopsellerBindings \cup DOMAIN FeaturedBindings

\* the list a binding's answer is rendered into
ListOf(b) == ListIn[Handler[b].targets[1]]

\* the lists of the page that holds binding b
ListsOfPage(b) ==
    IF b \in DOMAIN AccessoriesBindings \cup DOMAIN RelatedProductsBindings
    THEN {"#accessories", "#related-products"}
    ELSE {ListOf(b)}

Heights == 1..MaxHeight

Max(a, b) == IF a >= b THEN a ELSE b

\* a variant of the body of the align functions that adds the two heights
AlignColumnsSum(hs, id) ==
    IF Left(id) \in DOMAIN hs
    THEN [hs EXCEPT ![Left(id)] = hs[Left(id)] + hs[Right(id)],
                    ![Right(id)] = hs[Left(id)] + hs[Right(id)]]
    ELSE hs

\* the body the four align functions share: both columns get the height of
\* the taller one; on a page without the columns nothing happens
AlignColumns(hs, id) ==
    IF Left(id) \in DOMAIN hs
    THEN LET hl == hs[Left(id)]
             hr == hs[Right(id)]
             h == Max(hl, hr)
         IN  [hs EXCEPT ![Left(id)] = h, ![Right(id)] = h]
    ELSE hs

align_related_products_buttons(hs) == AlignColumns(hs, "#related-products")
align_accessories_buttons(hs) == AlignColumns(hs, "#accessories")
align_topsellers_buttons(hs) == AlignColumns(hs, "#topseller")
align_buttons(hs, id) == AlignColumns(hs, id)

\* the align call of each success callback
AlignCalls ==
    [b \in {"#add-accessories-button", ".accessories-update-button", ".accessories-page-link",
            ".filter-accessories-input", ".accessories-categories-filter",
            "#accessories-amount", "#topseller-amount"} |-> "align_accessories_buttons"] @@
    [b \in {"#add-related-products-button", "#remove-related-products-button",
            "#related-products-amount"} |-> "align_related_products_buttons"] @@
    [b \in {"#featured-amount"} |-> "align_buttons(#featured)"] @@
    [b \in LayoutBindings |-> "none"]

AlignFunctions ==
    {"align_accessories_buttons", "align_related_products_buttons",
     "align_topsellers_buttons", "align_buttons(#featured)"}

Call(f, hs) ==
    CASE f = "align_accessories_buttons" -> align_accessories_buttons(hs)
      [] f = "align_related_products_buttons" -> align_related_products_buttons(hs)
      [] f = "align_topsellers_buttons" -> align_topsellers_buttons(hs)
      [] f = "align_buttons(#featured)" -> align_buttons(hs, "#featured")
      [] OTHER -> hs

\* the fragment rendered into the container of list id: its columns are new
\* elements, as tall as their content
Render(hs, id, hl, hr) == [hs EXCEPT ![Left(id)] = hl, ![Right(id)] = hr]

LayoutAnswer(resp, hl, hr) ==
    [html |-> resp.html, message |-> resp.message, left |-> hl, right |-> hr]

InitLayout ==
    /\ page \in {{b} : b \in LayoutBindings}
    /\ formMethod \in FormMethods(page)
    /\ net = {}
    /\ sent = <<>>
    /\ nextId = 1
    /\ nclicks = 0
    /\ dom = [c \in PageContainers(page) |-> InitialMarkup]
    /\ loading = FALSE
    /\ growls = <<>>
    /\ linkClass = "collapsed"
    /\ arrived = <<>>
    /\ last = Event("load", "", 0, NoResponse)
    /\ InitNoFilter
    /\ InitNoConfirm
    /\ InitNoExport
    /\ InitNoCookies
    /\ InitNoServer
    /\ InitNoWidgets
    /\ height = [c \in UNION {{Left(l), Right(l)} : l \in ListsOfPage(TheBinding)} |->
                    IF c[2] = "-left" THEN 1 ELSE MaxHeight]

\* an event on the bound element of the page: the handler issues its request
LayoutTrigger(b) ==
    /\ b \in LayoutBindings
    /\ nclicks < MaxRenders
    /\ Trigger(b)

\* the success callback: the fragment is rendered into the container, the
\* notification is shown, and the align function the callback names is called
LayoutSuccess ==
    \E r \in net, hl \in Heights, hr \in Heights :
        \E resp \in Responses(Handler[r.b]) :
            /\ net' = net \ {r}
            /\ dom' = Patch(Handler[r.b], dom, resp)
            /\ growls' = Notify(Handler[r.b], growls, resp)
            /\ height' = Call(AlignCalls[r.b], Render(height, ListOf(r.b), hl, hr))
            /\ loading' = IF Handler[r.b].hide THEN hide_ajax_loading ELSE loading
            /\ last' = Event("success", r.b, r.id, LayoutAnswer(resp, hl, hr))
            /\ UNCHANGED <<page, formMethod, sent, nextId, nclicks, linkClass, arrived>>
            /\ UNCHANGED <<filterVars, confirmVars, exportVars, cookieVars,
                           serverVars, widgetVars>>

\* an align function is called again (the functions are global), nothing
\* else having happened since the call before
AlignAgain(f) ==
    /\ f \in AlignFunctions
    /\ last.ev = "success" => f = AlignCalls[last.b]
    /\ last.ev = "align" => f = last.b /\ last.id < MaxAligns
    /\ last.ev \in {"success", "align"}
    /\ height' = Call(f, height)
    /\ last' = Event("align", f, IF last.ev = "align" THEN last.id + 1 ELSE 1, last.resp)
    /\ UNCHANGED <<page, formMethod, net, sent, nextId, nclicks, dom, loading, growls,
                   linkClass, arrived>>
    /\ UNCHANGED <<filterVars, confirmVars, exportVars, cookieVars, serverVars, widgetVars>>

NextLayout ==
    \/ \E b \in Bindings : LayoutTrigger(b)
    \/ LayoutSuccess
    \/ \E f \in AlignFunctions : AlignAgain(f)

SpecLayout == InitLayout /\ [][NextLayout]_vars

\* C11 as stated: after every success callback that renders one of the four
\* lists, the two columns of that list are equally tall, as tall as the taller
\* of the two columns as rendered.
C11_ColumnsEqualAfterReplacement ==
    [][last'.ev = "success" =>
          /\ height'[Left(ListOf(last'.b))] = Max(last'.resp.left, last'.resp.right)
          /\ height'[Right(ListOf(last'.b))] = Max(last'.resp.left, last'.resp.right)]_vars

\* C15: an align function called again right after a call of the same
\* function (by a success callback or by a call before) changes no height.
C15_AlignIdempotent ==
    [][last'.ev = "align" => height' = height]_vars

C15_Witness ==
    /\ last.ev = "align"
    /\ last.id = 2
    /\ last.b = "align_accessories_buttons"
    /\ last.resp.left = 1
    /\ last.resp.right = 3
    /\ height[Left("#accessories")] = 3
    /\ height[Right("#accessories")] = 3


\* C16 as stated: a keystroke in a .products-name-filter field cancels no
\* submission scheduled for another field: every timer of another form that
\* is pending before the keystroke is pending after it.
C16_DebouncePerField ==
    [][(page = {".products-name-filter"} /\ Len(keys') = Len(keys) + 1) =>
          \A tm \in timers : tm.form # keys'[Len(keys')].f => tm \in timers']_vars

(***************************************************************************)
(* SpecProducts: the products overview page with the answers to the        *)
(* requests of its filter form.  The user types in the first field only;   *)
(* after MaxTime the user waits for the pending timer.                     *)
(***************************************************************************)
InitProducts ==
    /\ InitFilter
    /\ page = {".products-name-filter"}

\* nothing happens until the pending timer is due
Wait ==
    /\ clock >= MaxTime
    /\ \E tm \in timers :
          /\ tm.due > clock
          /\ clock' = tm.due
    /\ UNCHANGED <<timers, timeout, fieldVal, keys>>
    /\ UNCHANGED <<ajaxVars, confirmVars, exportVars, layoutVars, cookieVars,
                   serverVars, widgetVars>>

\* a variant of the success callback in which a keystroke made after the
\* request was sent has cancelled the request
ProductsSuccessUnlessTyped(r, data) ==
    /\ r \in net
    /\ net' = net \ {r}
    /\ dom' = IF Len(keys) > r.click THEN dom ELSE SetHtml(dom, "#products-inline", data)
    /\ arrived' = Append(arrived, r.id)
    /\ last' = Event("success", r.b, r.id, [html |-> <<data>>, message |-> Absent])
    /\ UNCHANGED <<page, formMethod, sent, nextId, nclicks, loading, growls, linkClass>>
    /\ UNCHANGED <<filterVars, confirmVars, exportVars, layoutVars, cookieVars,
                   serverVars, widgetVars>>

\* "success": function(data) { $("#products-inline").html(data); }
ProductsSuccess(r, data) ==
    /\ r \in net
    /\ net' = net \ {r}
    /\ dom' = SetHtml(dom, "#products-inline", data)
    /\ arrived' = Append(arrived, r.id)
    /\ last' = Event("success", r.b, r.id, [html |-> <<data>>, message |-> Absent])
    /\ UNCHANGED <<page, formMethod, sent, nextId, nclicks, loading, growls, linkClass>>
    /\ UNCHANGED <<filterVars, confirmVars, exportVars, layoutVars, cookieVars,
                   serverVars, widgetVars>>

\* the answer to a request of the filter form arrives
ProductsAnswer == \E r \in net, data \in Markup : ProductsSuccess(r, data)

\* a request fails: ajaxSubmit was given no error callback
ProductsFail ==
    \E r \in net :
        /\ net' = net \ {r}
        /\ last' = Event("fail", r.b, r.id, NoResponse)
        /\ UNCHANGED <<page, formMethod, sent, nextId, nclicks, dom, loading, growls,
                       linkClass, arrived>>
        /\ UNCHANGED <<filterVars, confirmVars, exportVars, layoutVars, cookieVars,
                       serverVars, widgetVars>>

NextProducts ==
    \/ \E v \in Values : ProductsNameFilterKeyup(1, v)
    \/ TimerFires
    \/ Tick
    \/ Wait
    \/ ProductsAnswer
    \/ ProductsFail

SpecProducts == InitProducts /\ [][NextProducts]_vars

\* C12: a keystroke removes no request from those in flight, and the answer
\* to a request, whenever it arrives and whatever arrived before it, becomes
\* the content of #products-inline.
C12_InFlightNeverCancelled ==
    [][/\ Len(keys') = Len(keys) + 1 => net' = net /\ sent' = sent
       /\ last'.ev = "success" => dom'["#products-inline"] = last'.resp.html[1]]_vars

C12_Witness ==
    /\ Len(sent) = 2
    /\ sent[1].click < Len(keys)
    /\ arrived = <<2, 1>>
    /\ last.ev = "success"
    /\ last.id = 1
    /\ last.resp.html[1] = "m1"
    /\ dom["#products-inline"] = "m1"


(***************************************************************************)
(* SpecCookies: the preferences kept in cookies.  The product page holds   *)
(* #product-tabs, the category page #category-tabs, the property page the  *)
(* .property-edit-mode link; the cookies are those of one path.            *)
(***************************************************************************)
CookiePages == {{"#product-tabs"}, {"#category-tabs"}, {".property-edit-mode"}}

\* the cookie each tabs widget is bound to
CookieOf == ("#product-tabs" :> "product_tab") @@ ("#category-tabs" :> "category_tab")

CookieNames == {"product_tab", "category_tab", "property-edit-mode", "message"}

\* the texts the server puts into the message cookie
FlashMessages == {"saved", "deleted"}

\* a variant of the message block of the ready handler that leaves the cookie
ShowMessageKeep(message) ==
    [shown |-> IF message # Absent THEN jGrowl(<<>>, message) ELSE <<>>, left |-> message]

\* the message block of the ready handler: a message cookie is shown as one
\* notification of the new document and the cookie is deleted
ShowMessage(message) ==
    IF message # Absent
    THEN [shown |-> jGrowl(<<>>, message), left |-> Absent]
    ELSE [shown |-> <<>>, left |-> message]

\* $.cookie(name, value) stores the value as text: an index as its digit,
\* a boolean as true or false
Text(i) == <<"0", "1", "2", "3", "4", "5", "6", "7", "8", "9">>[i + 1]
BoolText(v) == IF v THEN "true" ELSE "false"

\* a variant of parseInt that yields 0 for every text
parseIntZero(text) == 0

\* parseInt(text) for the text of a cookie: the number a digit stands for, and
\* NaN (here -1) for any other text
parseInt(text) ==
    IF \E i \in 0..9 : Text(i) = text THEN CHOOSE i \in 0..9 : Text(i) = text ELSE -1

\* index = (cookie != null) ? parseInt(cookie) : 0
IndexAtLoad(name) == IF cookie[name] # Absent THEN parseInt(cookie[name]) ELSE 0

\* the tabs widgets of a page
TabsOf(pg) == pg \cap DOMAIN CookieOf

InitCookies ==
    /\ page \in CookiePages
    /\ InitNoAjax
    /\ InitNoFilter
    /\ InitNoConfirm
    /\ InitNoExport
    /\ InitNoLayout
    /\ InitNoServer
    /\ InitNoWidgets
    /\ cookie = [n \in CookieNames |-> Absent]
    /\ selectedTab = [w \in TabsOf(page) |-> 0]
    /\ fieldsVisible = FALSE
    /\ written = [n \in CookieNames |-> -1]

\* a page is loaded: the message cookie is shown and deleted; each tabs
\* widget of the page selects the index read from its cookie; selecting a tab
\* other than the first shows it, which raises tabsshow and writes the index
\* back.  The property page is rendered with its edit fields shown or hidden.
PageLoad(pg) ==
    /\ pg \in CookiePages
    /\ page' = pg
    /\ selectedTab' = [w \in TabsOf(pg) |-> IndexAtLoad(CookieOf[w])]
    /\ growls' = ShowMessage(cookie["message"]).shown
    /\ cookie' = [n \in CookieNames |->
                    IF n = "message" THEN ShowMessage(cookie["message"]).left
                    ELSE IF \E w \in TabsOf(pg) : CookieOf[w] = n /\ IndexAtLoad(n) # 0
                         THEN Text(IndexAtLoad(n)) ELSE cookie[n]]
    /\ written' = [n \in CookieNames |->
                    IF \E w \in TabsOf(pg) : CookieOf[w] = n /\ IndexAtLoad(n) # 0
                    THEN IndexAtLoad(n) ELSE written[n]]
    /\ fieldsVisible' \in (IF pg = {".property-edit-mode"} THEN BOOLEAN ELSE {FALSE})
    /\ last' = Event("load", CHOOSE b \in pg : TRUE, 0, NoResponse)
    /\ UNCHANGED <<formMethod, net, sent, nextId, nclicks, dom, loading, linkClass, arrived>>
    /\ UNCHANGED <<filterVars, confirmVars, exportVars, layoutVars, serverVars, widgetVars>>

\* the server sets the message cookie with the answer to a request of the page
SetMessageCookie(text) ==
    /\ text \in FlashMessages
    /\ cookie' = [cookie EXCEPT !["message"] = text]
    /\ last' = Event("setcookie", "", 0, NoResponse)
    /\ UNCHANGED <<page, formMethod, net, sent, nextId, nclicks, dom, loading, growls,
                   linkClass, arrived>>
    /\ UNCHANGED <<selectedTab, fieldsVisible, written>>
    /\ UNCHANGED <<filterVars, confirmVars, exportVars, layoutVars, serverVars, widgetVars>>

\* the user shows another tab of widget w: tabsshow writes its index
TabsShow(w, i) ==
    /\ w \in TabsOf(page)
    /\ i \in 0..MaxTab
    /\ i # selectedTab[w]
    /\ selectedTab' = [selectedTab EXCEPT ![w] = i]
    /\ cookie' = [cookie EXCEPT ![CookieOf[w]] = Text(i)]
    /\ written' = [written EXCEPT ![CookieOf[w]] = i]
    /\ last' = Event("tabsshow", w, i, NoResponse)
    /\ UNCHANGED <<page, formMethod, net, sent, nextId, nclicks, dom, loading, growls,
                   linkClass, arrived>>
    /\ UNCHANGED fieldsVisible
    /\ UNCHANGED <<filterVars, confirmVars, exportVars, layoutVars, serverVars, widgetVars>>

\* a variant of the .property-edit-mode handler that shows the fields always
PropertyEditModeShow ==
    /\ ".property-edit-mode" \in page
    /\ nclicks < MaxClicks
    /\ nclicks' = nclicks + 1
    /\ fieldsVisible' = TRUE
    /\ cookie' = [cookie EXCEPT !["property-edit-mode"] = BoolText(TRUE)]
    /\ last' = Event("click", ".property-edit-mode", 0, NoResponse)
    /\ UNCHANGED <<page, formMethod, net, sent, nextId, dom, loading, growls, linkClass,
                   arrived>>
    /\ UNCHANGED <<selectedTab, written>>
    /\ UNCHANGED <<filterVars, confirmVars, exportVars, layoutVars, serverVars, widgetVars>>

\* click on .property-edit-mode
PropertyEditModeClick ==
    /\ ".property-edit-mode" \in page
    /\ nclicks < MaxClicks
    /\ nclicks' = nclicks + 1
    /\ LET em == cookie["property-edit-mode"]
       IN  IF em = "true"
           THEN /\ fieldsVisible' = FALSE
                /\ cookie' = [cookie EXCEPT !["property-edit-mode"] = BoolText(FALSE)]
           ELSE /\ fieldsVisible' = TRUE
                /\ cookie' = [cookie EXCEPT !["property-edit-mode"] = BoolText(TRUE)]
    /\ last' = Event("click", ".property-edit-mode", 0, NoResponse)
    /\ UNCHANGED <<page, formMethod, net, sent, nextId, dom, loading, growls, linkClass,
                   arrived>>
    /\ UNCHANGED <<selectedTab, written>>
    /\ UNCHANGED <<filterVars, confirmVars, exportVars, layoutVars, serverVars, widgetVars>>

NextCookies ==
    \/ \E pg \in CookiePages : PageLoad(pg)
    \/ \E text \in FlashMessages : SetMessageCookie(text)
    \/ \E w \in DOMAIN CookieOf, i \in 0..MaxTab : TabsShow(w, i)
    \/ PropertyEditModeClick

SpecCookies == InitCookies /\ [][NextCookies]_vars

\* C13: when a page is loaded, each tabs widget of the page selects the index
\* a tabsshow handler wrote last to the cookie of the widget, read back from
\* the text of the cookie, and index 0 when nothing was ever written; a
\* tabsshow of one widget writes the text of its index to the cookie of that
\* widget and leaves the other tab cookie as it is.
C13_TabRoundTrip ==
    [][/\ last'.ev = "load" =>
             \A w \in TabsOf(page') :
                 selectedTab'[w] = IF written[CookieOf[w]] = -1 THEN 0 ELSE written[CookieOf[w]]
       /\ last'.ev = "tabsshow" =>
             /\ cookie'[CookieOf[last'.b]] = Text(last'.id)
             /\ parseInt(cookie'[CookieOf[last'.b]]) = last'.id
             /\ \A n \in CookieNames \ {CookieOf[last'.b]} : cookie'[n] = cookie[n]
       /\ \A n \in {"product_tab", "category_tab"} :
             (cookie[n] = Absent) = (written[n] = -1)]_vars

C13_Witness ==
    /\ page = {"#product-tabs"}
    /\ last.ev = "load"
    /\ selectedTab["#product-tabs"] = 2
    /\ written["product_tab"] = 2
    /\ cookie["product_tab"] = "2"
    /\ cookie["category_tab"] = "1"

C25_FlashMessageShownOnce ==
    [][/\ last'.ev = "load" =>
             /\ growls' = IF cookie["message"] # Absent THEN <<cookie["message"]>> ELSE <<>>
             /\ cookie'["message"] = Absent
       /\ (cookie["message"] = Absent /\ cookie'["message"] # Absent) =>
             last'.ev = "setcookie"]_vars

C25_Witness ==
    /\ last.ev = "load"
    /\ growls = <<"deleted">>
    /\ cookie["message"] = Absent
    /\ cookie["product_tab"] = "1"

(***************************************************************************)
(* SpecSelect: the products table with one input.select-1 checkbox per     *)
(* row.  Rows are numbered from the top; the table is rendered with every  *)
(* row marked exactly if its checkbox is checked.                          *)
(***************************************************************************)
Rows == 1..MaxRows

\* a variant of the each-loop that never stops
PrevAll(i, v) == 1..(i - 1)

\* tr.prevAll("tr").each(...): the rows above row i the loop changes, from
\* the nearest upwards, before it meets a row whose marking is v and stops
PrevRun(i, v) == {j \in 1..(i - 1) : \A k \in j..(i - 1) : marked[k] # v}

InitSelect ==
    /\ page = {"input.select-1"}
    /\ InitNoAjax
    /\ InitNoFilter
    /\ InitNoConfirm
    /\ InitNoExport
    /\ InitNoLayout
    /\ InitNoCookies
    /\ InitNoServer
    /\ marked \in [Rows -> BOOLEAN]
    /\ selected = marked
    /\ criteria = <<>>
    /\ dialogOpen = FALSE
    /\ deleteUrl = <<>>
    /\ clicked = <<>>

\* click on the checkbox of row i, with or without the shift key: the
\* browser has toggled the checkbox when the handler runs
SelectClick(i, shiftKey) ==
    /\ i \in Rows
    /\ LET isChecked == ~selected[i]
           run == IF shiftKey THEN PrevRun(i, isChecked) ELSE {}
       IN  /\ marked' = [j \in Rows |-> IF j = i \/ j \in run THEN isChecked ELSE marked[j]]
           /\ selected' = [j \in Rows |-> IF j = i \/ j \in run THEN isChecked ELSE selected[j]]
    /\ last' = Event(IF shiftKey THEN "shiftclick" ELSE "click", "input.select-1", i, NoResponse)
    /\ UNCHANGED <<page, formMethod, net, sent, nextId, nclicks, dom, loading, growls,
                   linkClass, arrived>>
    /\ UNCHANGED <<criteria, dialogOpen, deleteUrl, clicked>>
    /\ UNCHANGED <<filterVars, confirmVars, exportVars, layoutVars, cookieVars, serverVars>>

NextSelect == \E i \in Rows, shiftKey \in BOOLEAN : SelectClick(i, shiftKey)

SpecSelect == InitSelect /\ [][NextSelect]_vars

\* C22: every row is marked exactly if its checkbox is checked, before and
\* after every click.  A click toggles the clicked row; with shift it also
\* gives the new state to the rows above it, from the nearest upwards, as
\* far as they do not have it yet, and stops at the first row that has it;
\* without shift no other row changes; the rows below never change.
C22_RowsMarkedIffChecked ==
    [][/\ \A j \in Rows : marked[j] = selected[j]
       /\ \A j \in Rows : marked'[j] = selected'[j]
       /\ LET i == last'.id
              s == ~selected[i]
          IN  /\ selected'[i] = s
              /\ \A j \in Rows : j > i => marked'[j] = marked[j]
              /\ \A j \in Rows : j < i =>
                    marked'[j] = IF /\ last'.ev = "shiftclick"
                                    /\ \A k \in j..(i - 1) : marked[k] # s
                                 THEN s ELSE marked[j]]_vars

C22_Witness ==
    /\ last.ev = "shiftclick"
    /\ last.id = MaxRows
    /\ marked = [j \in Rows |-> j # 1]
    /\ selected = marked

(***************************************************************************)
(* SpecDialog: the delete dialog.  The page holds MaxLinks pairs of links  *)
(* of class delete-link and the modal #delete-dialog with its buttons.  A  *)
(* text is a sequence of characters and character groups; a URL is a text. *)
(***************************************************************************)
\* the href attributes of the delete links: one without and one with a query
\* of two parameters, for each i
DeleteHrefs ==
    UNION {{<<"/delete/", Text(i)>>, <<"/delete", "?", "id=", Text(i), "&", "all=1">>} :
              i \in 1..MaxLinks}

\* the URL of the page that holds the links
ThisPage == <<"/manage">>

\* $(e).html(text) for a text without tags and character references: the
\* element holds the text
ParseHtml(text) == text

\* $(e).html(): the content of the element serialized as markup
InnerHtml(text) ==
    [i \in DOMAIN text |->
        CASE text[i] = "&" -> "&amp;"
          [] text[i] = "<" -> "&lt;"
          [] text[i] = ">" -> "&gt;"
          [] OTHER -> text[i]]

InitDialog ==
    /\ page = {".delete-link"}
    /\ InitNoAjax
    /\ InitNoFilter
    /\ InitNoExport
    /\ InitNoLayout
    /\ InitNoCookies
    /\ InitNoServer
    /\ place = <<>>
    /\ attrs = <<>>
    /\ yes = <<>>
    /\ confirmation = Undefined
    /\ location = ThisPage
    /\ nprompts = 0
    /\ origin = <<>>
    /\ marked = <<>>
    /\ selected = <<>>
    /\ criteria = <<>>
    /\ dialogOpen = FALSE
    /\ deleteUrl = <<>>
    /\ clicked = <<>>

\* click on a .delete-link with the given href; the dialog is modal, so the
\* links can be clicked only while it is closed
DeleteLinkClick(href) ==
    /\ location = ThisPage
    /\ ~dialogOpen
    /\ Len(clicked) < MaxClicks
    /\ deleteUrl' = ParseHtml(href)
    /\ dialogOpen' = TRUE
    /\ clicked' = Append(clicked, href)
    /\ last' = Event("click", ".delete-link", 0, NoResponse)
    /\ UNCHANGED <<page, formMethod, net, sent, nextId, nclicks, dom, loading, growls,
                   linkClass, arrived>>
    /\ UNCHANGED <<marked, selected, criteria>>
    /\ UNCHANGED <<filterVars, confirmVars, exportVars, layoutVars, cookieVars, serverVars>>

\* click on button k of the dialog (0 is the first): the dialog is closed and
\* the first button sets window.location to the content of #delete-url
DeleteDialogButtonClick(k) ==
    /\ location = ThisPage
    /\ dialogOpen
    /\ dialogOpen' = FALSE
    /\ location' = IF k = 0 THEN InnerHtml(deleteUrl) ELSE location
    /\ last' = Event("button", "#delete-dialog button", k, NoResponse)
    /\ UNCHANGED <<page, formMethod, net, sent, nextId, nclicks, dom, loading, growls,
                   linkClass, arrived>>
    /\ UNCHANGED <<place, attrs, yes, confirmation, nprompts, origin>>
    /\ UNCHANGED <<marked, selected, criteria, deleteUrl, clicked>>
    /\ UNCHANGED <<filterVars, exportVars, layoutVars, cookieVars, serverVars>>

\* the Escape key: closeOnEscape closes the dialog
DeleteDialogEscape ==
    /\ location = ThisPage
    /\ dialogOpen
    /\ dialogOpen' = FALSE
    /\ last' = Event("escape", "#delete-dialog", 0, NoResponse)
    /\ UNCHANGED <<page, formMethod, net, sent, nextId, nclicks, dom, loading, growls,
                   linkClass, arrived>>
    /\ UNCHANGED <<marked, selected, criteria, deleteUrl, clicked>>
    /\ UNCHANGED <<filterVars, confirmVars, exportVars, layoutVars, cookieVars, serverVars>>

NextDialog ==
    \/ \E href \in DeleteHrefs : DeleteLinkClick(href)
    \/ \E k \in 0..MaxLinks : DeleteDialogButtonClick(k)
    \/ DeleteDialogEscape

SpecDialog == InitDialog /\ [][NextDialog]_vars

\* C24: a click on a .delete-link does not navigate and opens the dialog;
\* the window navigates only on a click of the first button of the dialog,
\* and then to the href of the link clicked last; a click on another button
\* closes the dialog and does not navigate.
C24_DeleteDialog ==
    [][/\ last'.ev = "click" => location' = location /\ dialogOpen'
       /\ location' # location => last'.ev = "button" /\ last'.id = 0
       /\ (last'.ev = "button" /\ last'.id = 0) => location' = clicked[Len(clicked)]
       /\ (last'.ev = "button" /\ last'.id # 0) => location' = location /\ ~dialogOpen']_vars

(***************************************************************************)
(* SpecCriteria: the criteria form.  The document holds the criterion rows *)
(* in order, each with one .position field; the server renders them with   *)
(* positions 10, 20, ...  A row is [row |-> its identity, pos |-> the value *)
(* of its .position field].                                                *)
(***************************************************************************)
CriteriaRequests ==
    {".criterion-add-first-button", ".criterion-add-button", "select.criterion-type"}

\* a variant of update_positions that changes nothing
update_no_positions(rows) == rows

\* update_positions(): the k-th .position field of the document gets 10 * k
update_positions(rows) == [k \in 1..Len(rows) |-> [rows[k] EXCEPT !.pos = 10 * k]]

\* the index of the row in the document, 0 when it is not in the document
IndexOf(rows, row) ==
    IF \E k \in 1..Len(rows) : rows[k].row = row
    THEN CHOOSE k \in 1..Len(rows) : rows[k].row = row ELSE 0

\* the row the answer to request r holds: a new row with the position the
\* server has rendered
NewRow(r, pos) == [row |-> MaxCriteria + r.id, pos |-> pos]

InitCriteria ==
    /\ page = CriteriaRequests \cup {".criterion-delete-button"}
    /\ InitNoAjax
    /\ InitNoFilter
    /\ InitNoConfirm
    /\ InitNoExport
    /\ InitNoLayout
    /\ InitNoCookies
    /\ InitNoServer
    /\ marked = <<>>
    /\ selected = <<>>
    /\ \E n \in 0..MaxCriteria : criteria = [k \in 1..n |-> [row |-> k, pos |-> 10 * k]]
    /\ dialogOpen = FALSE
    /\ deleteUrl = <<>>
    /\ clicked = <<>>

\* click on .criterion-add-first-button, click on the .criterion-add-button
\* of a row, or change of the select.criterion-type of a row: one POST; the
\* callback keeps the row of the element (0 for the add-first button)
CriterionEvent(b, row) ==
    /\ b \in CriteriaRequests
    /\ nclicks < MaxClicks
    /\ IF b = ".criterion-add-first-button" THEN row = 0 ELSE IndexOf(criteria, row) # 0
    /\ LET r == [id |-> nextId, b |-> b, method |-> "POST", click |-> nclicks + 1,
                 row |-> row]
       IN  /\ net' = net \cup {r}
           /\ sent' = Append(sent, r)
           /\ last' = Event("trigger", b, r.id, NoResponse)
    /\ nextId' = nextId + 1
    /\ nclicks' = nclicks + 1
    /\ UNCHANGED <<page, formMethod, dom, loading, growls, linkClass, arrived>>
    /\ UNCHANGED widgetVars
    /\ UNCHANGED <<filterVars, confirmVars, exportVars, layoutVars, cookieVars, serverVars>>

\* click on the .criterion-delete-button of a row: the row is removed
CriterionDeleteClick(row) ==
    /\ IndexOf(criteria, row) # 0
    /\ criteria' = SelectSeq(criteria, LAMBDA c : c.row # row)
    /\ last' = Event("delete", ".criterion-delete-button", row, NoResponse)
    /\ UNCHANGED <<page, formMethod, net, sent, nextId, nclicks, dom, loading, growls,
                   linkClass, arrived>>
    /\ UNCHANGED <<marked, selected, dialogOpen, deleteUrl, clicked>>
    /\ UNCHANGED <<filterVars, confirmVars, exportVars, layoutVars, cookieVars, serverVars>>

\* the answer to a request of the criteria form: the new row is put at the
\* head of .criteria, after the row of the button, or in place of the row of
\* the select (nowhere when that row has left the document), and the
\* positions are renumbered
CriterionSuccess(r, pos) ==
    /\ r \in net
    /\ LET k == IndexOf(criteria, r.row)
           rows == CASE r.b = ".criterion-add-first-button" -> <<NewRow(r, pos)>> \o criteria
                     [] k = 0 -> criteria
                     [] r.b = ".criterion-add-button" ->
                           SubSeq(criteria, 1, k) \o <<NewRow(r, pos)>> \o
                           SubSeq(criteria, k + 1, Len(criteria))
                     [] OTHER ->
                           SubSeq(criteria, 1, k - 1) \o <<NewRow(r, pos)>> \o
                           SubSeq(criteria, k + 1, Len(criteria))
       IN  criteria' = update_positions(rows)
    /\ net' = net \ {r}
    /\ last' = Event("success", r.b, r.id, NoResponse)
    /\ UNCHANGED <<page, formMethod, sent, nextId, nclicks, dom, loading, growls,
                   linkClass, arrived>>
    /\ UNCHANGED <<marked, selected, dialogOpen, deleteUrl, clicked>>
    /\ UNCHANGED <<filterVars, confirmVars, exportVars, layoutVars, cookieVars, serverVars>>

\* the positions the server renders a new row with
RenderedPositions == {0, 10}

CriterionAnswer == \E r \in net, pos \in RenderedPositions : CriterionSuccess(r, pos)

\* a request of the criteria form fails: no callback runs
CriterionFail ==
    \E r \in net :
        /\ net' = net \ {r}
        /\ last' = Event("fail", r.b, r.id, NoResponse)
        /\ UNCHANGED <<page, formMethod, sent, nextId, nclicks, dom, loading, growls,
                       linkClass, arrived>>
        /\ UNCHANGED widgetVars
        /\ UNCHANGED <<filterVars, confirmVars, exportVars, layoutVars, cookieVars, serverVars>>

CriteriaRowIds == 0..(MaxCriteria + MaxClicks)

NextCriteria ==
    \/ \E b \in CriteriaRequests, row \in CriteriaRowIds : CriterionEvent(b, row)
    \/ \E row \in CriteriaRowIds : CriterionDeleteClick(row)
    \/ CriterionAnswer
    \/ CriterionFail

SpecCriteria == InitCriteria /\ [][NextCriteria]_vars

\* C23: after every answer to an add-first, add or type-change request the
\* k-th .position field of the document holds 10 * k; and at every moment the
\* positions are strictly increasing in document order.
C23_CriterionPositions ==
    [][/\ last'.ev = "success" =>
             \A k \in 1..Len(criteria') : criteria'[k].pos = 10 * k
       /\ \A j, k \in 1..Len(criteria) : j < k => criteria[j].pos < criteria[k].pos
       /\ \A j, k \in 1..Len(criteria') : j < k => criteria'[j].pos < criteria'[k].pos]_vars

\* the first of two rows was deleted, then a row was added after the other
C23_Witness ==
    /\ last.ev = "success"
    /\ last.b = ".criterion-add-button"
    /\ Len(criteria) = 2
    /\ criteria[1] = [row |-> 2, pos |-> 10]
    /\ criteria[2].row > MaxCriteria
    /\ criteria[2].pos = 20

=============================================================================
